---- MODULE Spec2Model ----
(***************************************************************************)
(* Verification model of the eino-ext adapter components:                  *)
(*   - Milvus2 retriever, hybrid search mode (search_mode/hybrid.go)       *)
(*   - Ark ResponsesAPIChatModel request construction and streaming        *)
(*   - Milvus2 indexer construction (indexer.go)                           *)
(* Each subsystem has its own specification (SpecHybrid, SpecArk,          *)
(* SpecOps, SpecIndexer); the variables of the other subsystems stay       *)
(* at their initial value.                                                 *)
(***************************************************************************)
EXTENDS Integers, Sequences, FiniteSets, TLC

VARIABLES
    \* ---- Milvus2 retriever / hybrid search mode ----
    rpc,          \* position of the caller inside NewRetriever / Hybrid.Retrieve
    rconf,        \* *RetrieverConfig
    hy,           \* *Hybrid (TopK, SubRequests)
    ropts,        \* per-call retriever options (opts ...retriever.Option)
    queryVector,  \* result of EmbedQuery: length of the []float32
    hybridOpt,    \* the HybridSearchOption built (<<>> when none)
    rerr,         \* error returned by Retrieve ("" = nil)
    rcalls,       \* requests issued to milvusclient.Client, in order
    \* ---- Ark ResponsesAPIChatModel: request construction ----
    history,      \* the conversation the caller holds ([]*schema.Message)
    now,          \* time.Now().Unix()
    cmCache,      \* cm.cache.SessionCache (nil or *SessionCacheConfig)
    apc,          \* "idle", or "returned" right after a Generate call
    arkOpt,       \* arkOpts.cache of that call (nil or *CacheOption)
    arkTrimmed,   \* messages handed to populateInput by that call
    responseReq,  \* request sent by that call (nil when none was sent)
    arkErr,       \* error returned by that call ("" = nil)
    lastOut,      \* message returned by that call (nil when none)
    \* ---- one operation and what it leaves running: Indexer.Store and
    \*      ResponsesAPIChatModel.Stream ----
    op,           \* operation called: "" (none yet), "Store", "Retrieve" or "Stream"
    cpc,          \* position of the caller inside the operation
    inflight,     \* requests sent to the embedder / backend and not yet answered
    ocalls,       \* requests sent to the embedder / backend, in order
    cb,           \* callbacks emitted, in order
    operr,        \* error returned by the operation ("" = nil)
    sconf,        \* Store: the indexer's config (dense field configured?)
    sdocs,        \* Store: the documents passed in
    svectors,     \* Store: vectors returned by embedDocuments (nil or their number)
    sids,         \* Store: ids returned (nil or their number)
    scolumns,     \* Store: columns the DocumentConverter produced (nil when none)
    sanswers,     \* Store: answers of the embedder / backend, in order
    trace,        \* Store / Retrieve: callbacks and requests, in program order
    gpc,          \* Stream: position of the goroutine it starts
    events,       \* Stream: events the backend stream has yet to deliver
    pipe,         \* Stream: buffer of schema.Pipe(1)
    pipeClosed,   \* Stream: sw.Close() was called
    readerClosed, \* Stream: responseStreamReader.Close() was called
    received,     \* Stream: number of chunks the caller has read from outStream
    \* ---- Milvus2 indexer: NewIndexer ----
    iconf,        \* *IndexerConfig (validate fills in its defaults)
    iconf0,       \* the IndexerConfig as the caller passed it to NewIndexer
    ipc,          \* position of the caller inside NewIndexer
    itodo,        \* createIndex: configured vector fields still to be handled
    ixcalls,      \* requests issued to milvusclient.Client, in order, with results
    ixerr,        \* error returned by NewIndexer ("" = nil)
    milvus,       \* the backend: the target collection's existence, vector
                  \* fields, indexed fields and load state
    \* ---- Milvus2 retriever: NewRetriever / loadCollection ----
    lconf,        \* *RetrieverConfig, as far as NewRetriever checks it
    lpc,          \* position of the caller inside NewRetriever
    lcalls,       \* requests issued to milvusclient.Client, in order, with results
    lerr,         \* error returned by NewRetriever ("" = nil)
    lmilvus,      \* the backend: the target collection (as for the indexer)
    \* ---- Milvus2 retriever, iterator search mode: Iterator.Retrieve ----
    iterConf,     \* *RetrieverConfig (validated by NewRetriever)
    iterOpts,     \* per-call retriever options (opts ...retriever.Option)
    iterBatchSize,\* Iterator.BatchSize
    iterHits,     \* backend: number of entities matching the search, by rank 1..n
    iterPc,       \* position of the caller inside Iterator.Retrieve
    iterLimit,    \* the iterator limit passed to client.SearchIterator (0 when none)
    iterCursor,   \* backend cursor: number of hits yielded so far
    iterBatches,  \* the batches iterator.Next yielded, in order
    allDocs,      \* allDocs, the documents collected so far
    iterDocs,     \* documents returned by Retrieve (nil when none)
    iterErr,      \* error returned by Retrieve ("" = nil)
    iterCalls,    \* requests issued to the embedder / backend, in order
    \* ---- Milvus2 retriever, scalar search mode: Scalar.Retrieve ----
    scConf,       \* *RetrieverConfig (validated by NewRetriever)
    scQuery,      \* the query string, as a sequence of characters
    scOpts,       \* per-call options: Filter (WithFilter) and TopK
    scPc,         \* position of the caller inside Scalar.Retrieve
    scQueryOpt,   \* the QueryOption built (nil when none)
    scDocs,       \* documents returned (nil or their number)
    scErr,        \* error returned by Retrieve ("" = nil)
    scCalls,      \* requests issued to milvusclient.Client, in order
    \* ---- Milvus2 indexer: toMilvusSparseEmbedding ----
    svMap,        \* the sparse vector, map[int]float64
    svPc,         \* "idle", or "returned" after the conversion
    svOut,        \* indices and values handed to entity.NewSliceSparseEmbedding (nil when none)
    svErr,        \* error returned ("" = nil)
    \* ---- repeated IndexerConfig.validate ----
    vconf,        \* the IndexerConfig validate is called on
    vonce,        \* the config as the first call left it
    vcalls,       \* number of validate calls so far
    verr          \* error of the last call, "" is nil

hybridVars == <<rpc, rconf, hy, ropts, queryVector, hybridOpt, rerr, rcalls>>
arkVars == <<history, now, cmCache, apc, arkOpt, arkTrimmed, responseReq,
             arkErr, lastOut>>

opsVars == <<op, cpc, inflight, ocalls, cb, operr, sconf, sdocs, svectors, sids,
             scolumns, sanswers, trace,
             gpc, events, pipe, pipeClosed, readerClosed, received>>

ixVars == <<iconf, iconf0, ipc, itodo, ixcalls, ixerr, milvus>>

loadVars == <<lconf, lpc, lcalls, lerr, lmilvus>>

iterVars == <<iterConf, iterOpts, iterBatchSize, iterHits, iterPc, iterLimit, iterCursor, iterBatches, allDocs, iterDocs, iterErr, iterCalls>>

scalarVars == <<scConf, scQuery, scOpts, scPc, scQueryOpt, scDocs, scErr, scCalls>>

sparseVars == <<svMap, svPc, svOut, svErr>>

validateVars == <<vconf, vonce, vcalls, verr>>

vars == <<hybridVars, arkVars, opsVars, ixVars, loadVars, iterVars, scalarVars, sparseVars, validateVars>>

notHybrid == <<arkVars, opsVars, ixVars, loadVars, iterVars, scalarVars, sparseVars, validateVars>>
notArk == <<hybridVars, opsVars, ixVars, loadVars, iterVars, scalarVars, sparseVars, validateVars>>
notOps == <<hybridVars, arkVars, ixVars, loadVars, iterVars, scalarVars, sparseVars, validateVars>>
notLoad == <<hybridVars, arkVars, opsVars, ixVars, iterVars, scalarVars, sparseVars, validateVars>>
notIx == <<hybridVars, arkVars, opsVars, loadVars, iterVars, scalarVars, sparseVars, validateVars>>
notScalar == <<hybridVars, arkVars, opsVars, ixVars, loadVars, iterVars, sparseVars, validateVars>>
notIter == <<hybridVars, arkVars, opsVars, ixVars, loadVars, scalarVars, sparseVars, validateVars>>
notValidate == <<hybridVars, arkVars, opsVars, ixVars, loadVars, iterVars, scalarVars, sparseVars>>
notSparse == <<hybridVars, arkVars, opsVars, ixVars, loadVars, iterVars, scalarVars, validateVars>>

\* A Go pointer is modelled as a sequence: <<>> is nil, <<v>> points to v.
Nil == <<>>
Ptr(v) == <<v>>
Deref(p) == p[1]

(***************************************************************************)
(* Bounds                                                                  *)
(***************************************************************************)
MaxSubs == 3
MaxMsgs == 5
MaxNow == 3
MaxDocs == 2
MaxEvents == 3
MaxHits == 4
MaxBatch == 2
MaxRows == 2
MaxValidate == 3

(***************************************************************************)
(* Milvus2 retriever: configuration                                        *)
(***************************************************************************)
DefaultTopK == 5
DocSubRequestTopK == 10

DenseVector == "DenseVector"
SparseVector == "SparseVector"

\* values a user may put in RetrieverConfig.TopK, Hybrid.TopK, SubRequest.TopK
ConfTopKs == {0, 3, 10}
HybridTopKs == {0, 7}
SubTopKs == {0, 2, 10}
OptTopKs == {4}
VectorLens == {0, 2}

SubRequestSet == [TopK : SubTopKs, VectorType : {DenseVector, SparseVector}]

RECURSIVE SeqsUpTo(_, _)
SeqsUpTo(S, n) ==
    IF n = 0 THEN {<<>>}
    ELSE LET shorter == SeqsUpTo(S, n - 1)
         IN  shorter \cup {Append(s, x) : s \in {t \in shorter : Len(t) = n - 1}, x \in S}

\* RetrieverConfig.validate: fills defaults (only TopK matters here).
RetrieverValidate(c) ==
    IF c.TopK <= 0 THEN [c EXCEPT !.TopK = DefaultTopK] ELSE c

\* retriever.GetCommonOptions(base, opts...): applies every option to base
\* and returns base.  WithTopK is the only common option that matters here.
GetCommonOptions(base, opts) ==
    IF opts.TopK # Nil THEN [base EXCEPT !.TopK = opts.TopK] ELSE base

(***************************************************************************)
(* Hybrid.BuildHybridSearchOption                                          *)
(***************************************************************************)
\* final limit of the hybrid request
FinalTopK(h, conf, opts) ==
    LET co == GetCommonOptions([TopK |-> Ptr(conf.TopK)], opts)
        t1 == conf.TopK
        t2 == IF h.TopK > 0 THEN h.TopK ELSE t1
    IN  IF co.TopK # Nil THEN Deref(co.TopK) ELSE t2

\* limit of the ANN sub-request built for one SubRequest
AnnLimit_AlwaysGlobal(req, conf) == conf.TopK
AnnLimit_DocDefault(req, conf) == IF req.TopK <= 0 THEN DocSubRequestTopK ELSE req.TopK
AnnLimit(req, conf) ==
    IF req.TopK <= 0 THEN conf.TopK ELSE req.TopK

AnnRequest(req, conf) ==
    [limit |-> AnnLimit(req, conf), vectorType |-> req.VectorType]

\* BuildHybridSearchOption: len(h.SubRequests) < 2
TooFewSubRequests_OnlyNone(h) == Len(h.SubRequests) < 1
TooFewSubRequests(h) == Len(h.SubRequests) < 2

BuildHybridSearchOption(h, conf, qv, opts) ==
    IF TooFewSubRequests(h)
    THEN [err |-> "hybrid search requires at least 2 SubRequests", opt |-> Nil]
    ELSE IF \E i \in 1..Len(h.SubRequests) :
                h.SubRequests[i].VectorType # SparseVector /\ qv = 0
    THEN [err |-> "dense vector SubRequest requires embedding", opt |-> Nil]
    ELSE [err |-> "",
          opt |-> Ptr([limit |-> FinalTopK(h, conf, opts),
                       annRequests |-> [i \in 1..Len(h.SubRequests) |->
                                           AnnRequest(h.SubRequests[i], conf)]])]

(***************************************************************************)
(* Hybrid retriever: state machine                                         *)
(***************************************************************************)
InitHybridVars ==
    /\ rpc = "new"
    /\ rconf \in [TopK : ConfTopKs, Embedding : BOOLEAN]
    /\ hy \in [TopK : HybridTopKs, SubRequests : SeqsUpTo(SubRequestSet, MaxSubs)]
    /\ ropts = [TopK |-> Nil]
    /\ queryVector = 0
    /\ hybridOpt = Nil
    /\ rerr = ""
    /\ rcalls = <<>>

\* NewRetriever: conf.validate()
NewRetriever ==
    /\ rpc = "new"
    /\ rconf' = RetrieverValidate(rconf)
    /\ rpc' = "ready"
    /\ UNCHANGED <<hy, ropts, queryVector, hybridOpt, rerr, rcalls>>
    /\ UNCHANGED notHybrid

\* Hybrid.Retrieve, entry: the caller passes its options; a nil embedder is
\* rejected before anything else happens.
HybridRetrieve ==
    /\ rpc = "ready"
    /\ \E o \in {Nil} \cup {Ptr(k) : k \in OptTopKs} : ropts' = [TopK |-> o]
    /\ IF rconf.Embedding
       THEN rpc' = "embed" /\ rerr' = ""
       ELSE rpc' = "done" /\ rerr' = "embedding is required for hybrid search"
    /\ UNCHANGED <<rconf, hy, queryVector, hybridOpt, rcalls>>
    /\ UNCHANGED notHybrid

\* EmbedQuery: the embedder fails, or returns one vector.
EmbedQuery ==
    /\ rpc = "embed"
    /\ \/ /\ rerr' = "[Retriever] failed to embed query"
          /\ rpc' = "done"
          /\ UNCHANGED queryVector
       \/ /\ \E n \in VectorLens : queryVector' = n
          /\ rpc' = "build"
          /\ UNCHANGED rerr
    /\ UNCHANGED <<rconf, hy, ropts, hybridOpt, rcalls>>
    /\ UNCHANGED notHybrid

\* h.BuildHybridSearchOption(ctx, conf, queryVector, query, opts...)
HybridBuild ==
    /\ rpc = "build"
    /\ LET r == BuildHybridSearchOption(hy, rconf, queryVector, ropts)
       IN  /\ hybridOpt' = r.opt
           /\ IF r.err # ""
              THEN rpc' = "done" /\ rerr' = "failed to build hybrid search option"
              ELSE rpc' = "search" /\ UNCHANGED rerr
    /\ UNCHANGED <<rconf, hy, ropts, queryVector, rcalls>>
    /\ UNCHANGED notHybrid

\* client.HybridSearch(ctx, searchOpt): the request is issued; the backend
\* answers with an error or a result set.
HybridSearch ==
    /\ rpc = "search"
    /\ rcalls' = Append(rcalls, [op |-> "HybridSearch", opt |-> Deref(hybridOpt)])
    /\ \/ rerr' = "failed to hybrid search"
       \/ rerr' = ""
    /\ rpc' = "done"
    /\ UNCHANGED <<rconf, hy, ropts, queryVector, hybridOpt>>
    /\ UNCHANGED notHybrid

NextHybrid ==
    \/ NewRetriever
    \/ HybridRetrieve
    \/ EmbedQuery
    \/ HybridBuild
    \/ HybridSearch

(***************************************************************************)
(* Ark ResponsesAPIChatModel: session cache (populateCache)                *)
(***************************************************************************)
UserRole == "user"
AssistantRole == "assistant"
cachingEnabled == "enabled"
cachingDisabled == "disabled"

\* values a caller may configure
CfgTTLs == {1}
OptTTLs == {2}
HeadRespIDs == {100}
ContextIDs == {200}

SessionCacheConfigs(ttls) == [EnableCache : BOOLEAN, TTL : ttls]

CacheOptions ==
    [ContextID : {Nil} \cup {Ptr(c) : c \in ContextIDs},
     HeadPreviousResponseID : {Nil} \cup {Ptr(r) : r \in HeadRespIDs},
     SessionCache : {Nil} \cup {Ptr(c) : c \in SessionCacheConfigs(OptTTLs)}]

\* GetCacheExpiration(msg) (expireAtSec int64, ok bool)
GetCacheExpiration(msg) ==
    [ok |-> msg.expireAt # Nil,
     expireAtSec |-> IF msg.expireAt # Nil THEN Deref(msg.expireAt) ELSE 0]

\* GetResponseID(msg) (string, bool)
GetResponseID(msg) ==
    [ok |-> msg.respID # Nil,
     id |-> IF msg.respID # Nil THEN Deref(msg.respID) ELSE 0]

\* store / cacheStatus: the model's SessionCache, overridden by the
\* SessionCache of the per-call option when the option carries one.
CacheStore_OnlyTurnsOn(sCache, cacheOpt) ==
    \/ (sCache # Nil /\ Deref(sCache).EnableCache)
    \/ (cacheOpt # Nil /\ Deref(cacheOpt).SessionCache # Nil
           /\ Deref(Deref(cacheOpt).SessionCache).EnableCache)
CacheStore(sCache, cacheOpt) ==
    LET store0 == sCache # Nil /\ Deref(sCache).EnableCache
    IN  IF cacheOpt # Nil /\ Deref(cacheOpt).SessionCache # Nil
        THEN Deref(Deref(cacheOpt).SessionCache).EnableCache
        ELSE store0

\* cacheTTL: pointer to the TTL in effect
CacheTTL(sCache, cacheOpt) ==
    LET ttl0 == IF sCache # Nil THEN Ptr(Deref(sCache).TTL) ELSE Nil
    IN  IF cacheOpt # Nil /\ Deref(cacheOpt).SessionCache # Nil
        THEN Ptr(Deref(Deref(cacheOpt).SessionCache).TTL)
        ELSE ttl0

\* The loop "for i := len(in) - 1; i >= 0; i--" of populateCache, entered at
\* index i (indices are 1-based here).  inputIdx is the last index visited.
FindCached_Oldest(in, i, t) ==
    LET cand == {j \in 1..Len(in) :
                    /\ in[j].expireAt # Nil /\ Deref(in[j].expireAt) >= t
                    /\ in[j].respID # Nil}
    IN  IF cand = {} THEN [preRespID |-> Nil, inputIdx |-> 1]
        ELSE LET j == CHOOSE k \in cand : \A l \in cand : k <= l
             IN  [preRespID |-> in[j].respID, inputIdx |-> j]
RECURSIVE FindCached(_, _, _)
FindCached(in, i, t) ==
    IF i < 1 THEN [preRespID |-> Nil, inputIdx |-> 1]
    ELSE LET exp == GetCacheExpiration(in[i])
             rid == GetResponseID(in[i])
         IN  IF ~exp.ok \/ exp.expireAtSec < t THEN FindCached(in, i - 1, t)
             ELSE IF rid.ok THEN [preRespID |-> Ptr(rid.id), inputIdx |-> i]
             ELSE FindCached(in, i - 1, t)

\* in = in[inputIdx+1:]
TrimInput_KeepCached(in, inputIdx) == SubSeq(in, inputIdx, Len(in))
TrimInput(in, inputIdx) == SubSeq(in, inputIdx + 1, Len(in))

\* "ResponseID has a higher priority than HeadPreviousResponseID"
PreviousResponseId_HeadFirst(preRespID, headRespID, contextID) ==
    IF contextID # Nil THEN contextID
    ELSE IF headRespID # Nil THEN headRespID
    ELSE preRespID
PreviousResponseId(preRespID, headRespID, contextID) ==
    IF preRespID = Nil
    THEN IF contextID # Nil THEN contextID ELSE headRespID
    ELSE preRespID

populateCache(in, sCache, cacheOpt, t) ==
    LET store == CacheStore(sCache, cacheOpt)
        cacheStatus == IF store THEN cachingEnabled ELSE cachingDisabled
        cacheTTL == CacheTTL(sCache, cacheOpt)
        contextID == IF cacheOpt # Nil THEN Deref(cacheOpt).ContextID ELSE Nil
        headRespID == IF cacheOpt # Nil THEN Deref(cacheOpt).HeadPreviousResponseID ELSE Nil
        scan == IF cacheStatus = cachingEnabled /\ contextID = Nil
                THEN FindCached(in, Len(in), t)
                ELSE [preRespID |-> Nil, inputIdx |-> 1]
    IN  IF scan.preRespID # Nil /\ scan.inputIdx >= Len(in)
        THEN [err |-> "not found incremental input after ResponseID",
              in |-> in, req |-> Nil]
        ELSE [err |-> "",
              in |-> IF scan.preRespID # Nil THEN TrimInput(in, scan.inputIdx) ELSE in,
              req |-> Ptr([PreviousResponseId |->
                               PreviousResponseId(scan.preRespID, headRespID, contextID),
                           Store |-> store,
                           ExpireAt |-> IF cacheTTL # Nil
                                        THEN Ptr(t + Deref(cacheTTL)) ELSE Nil,
                           Caching |-> cacheStatus])]

\* populateInput: one input item per message; an assistant message without
\* content (and without tool calls) adds no item, a user message without
\* content is an error.
RECURSIVE InputItems(_)
InputItems(in) ==
    IF in = <<>> THEN <<>>
    ELSE LET m == Head(in)
         IN  IF m.role = AssistantRole /\ ~m.content
             THEN InputItems(Tail(in))
             ELSE <<[role |-> m.role, src |-> m.id]>> \o InputItems(Tail(in))

populateInput(in) ==
    IF \E i \in 1..Len(in) : in[i].role = UserRole /\ ~in[i].content
    THEN [err |-> "user role message content is empty", items |-> <<>>]
    ELSE [err |-> "", items |-> InputItems(in)]

\* genRequestAndOptions: populateCache, then populateInput on what is left
genRequestAndOptions(in, sCache, cacheOpt, t) ==
    LET pc == populateCache(in, sCache, cacheOpt, t)
        pi == populateInput(pc.in)
    IN  IF pc.err # "" THEN [err |-> pc.err, in |-> <<>>, req |-> Nil]
        ELSE IF pi.err # "" THEN [err |-> pi.err, in |-> <<>>, req |-> Nil]
        ELSE [err |-> "", in |-> pc.in,
              req |-> Ptr([PreviousResponseId |-> Deref(pc.req).PreviousResponseId,
                           Store |-> Deref(pc.req).Store,
                           ExpireAt |-> Deref(pc.req).ExpireAt,
                           Caching |-> Deref(pc.req).Caching,
                           Input |-> pi.items])]

\* toOutputMessage: the response id is always recorded, the cache
\* expiration only when caching was enabled for the request.
toOutputMessage(req, respId, msgId, hasContent) ==
    [id |-> msgId, role |-> AssistantRole, content |-> hasContent,
     respID |-> Ptr(respId),
     expireAt |-> IF req.Caching = cachingEnabled
                  THEN (IF req.ExpireAt # Nil THEN req.ExpireAt ELSE Ptr(0))
                  ELSE Nil]

InitArkVars ==
    /\ apc = "idle"
    /\ history = <<>>
    /\ now = 1
    /\ cmCache \in {Nil} \cup {Ptr(c) : c \in SessionCacheConfigs(CfgTTLs)}
    /\ arkOpt = Nil
    /\ arkTrimmed = <<>>
    /\ responseReq = Nil
    /\ arkErr = ""
    /\ lastOut = Nil

IdleArk ==
    /\ apc = "idle"
    /\ history = <<>>
    /\ now = 1
    /\ cmCache = Nil
    /\ arkOpt = Nil
    /\ arkTrimmed = <<>>
    /\ responseReq = Nil
    /\ arkErr = ""
    /\ lastOut = Nil

\* the results of the call are gone once the caller moves on
ArkCallForgotten ==
    /\ apc' = "idle"
    /\ arkOpt' = Nil
    /\ arkTrimmed' = <<>>
    /\ responseReq' = Nil
    /\ arkErr' = ""
    /\ lastOut' = Nil

\* the caller adds a user message to the conversation
UserSay ==
    /\ Len(history) < MaxMsgs
    /\ IF history = <<>> THEN TRUE ELSE history[Len(history)].role = AssistantRole
    /\ history' = Append(history,
                     [id |-> Len(history) + 1, role |-> UserRole, content |-> TRUE,
                      respID |-> Nil, expireAt |-> Nil])
    /\ ArkCallForgotten
    /\ UNCHANGED <<now, cmCache>>
    /\ UNCHANGED notArk

\* the caller adds the message returned by the call, the answer to its last
\* user message, to the conversation
AppendOutput ==
    /\ Len(history) < MaxMsgs
    /\ lastOut # Nil
    /\ history[Len(history)].role = UserRole
    /\ history' = Append(history, Deref(lastOut))
    /\ ArkCallForgotten
    /\ UNCHANGED <<now, cmCache>>
    /\ UNCHANGED notArk

\* time passes
Tick ==
    /\ now < MaxNow
    /\ now' = now + 1
    /\ ArkCallForgotten
    /\ UNCHANGED <<history, cmCache>>
    /\ UNCHANGED notArk

\* ResponsesAPIChatModel.Generate(ctx, history, WithCache(cacheOpt)):
\* genRequestAndOptions, client.CreateResponses, toOutputMessage.
Generate ==
    /\ apc = "idle"
    /\ history # <<>>
    /\ \E cacheOpt \in {Nil} \cup {Ptr(o) : o \in CacheOptions} :
          LET g == genRequestAndOptions(history, cmCache, cacheOpt, now)
          IN  /\ arkOpt' = cacheOpt
              /\ arkTrimmed' = g.in
              /\ responseReq' = g.req
              /\ IF g.err # ""
                 THEN /\ arkErr' = "genRequestAndOptions failed"
                      /\ lastOut' = Nil
                 ELSE \/ /\ arkErr' = "failed to create responses"
                         /\ lastOut' = Nil
                      \/ /\ arkErr' = ""
                         /\ \E c \in BOOLEAN :
                               lastOut' = Ptr(toOutputMessage(Deref(g.req),
                                                  Len(history) + 1, Len(history) + 1, c))
    /\ apc' = "returned"
    /\ UNCHANGED <<history, now, cmCache>>
    /\ UNCHANGED notArk

NextArk ==
    \/ UserSay
    \/ AppendOutput
    \/ Tick
    \/ Generate

(***************************************************************************)
(* Indexer.Store                                                           *)
(***************************************************************************)
DocSet == [hasDense : BOOLEAN]

\* defaultDocumentConverter, as far as it can fail on dense vectors: with
\* len(vectors) == len(docs) the embedded vectors are used, otherwise each
\* document's own DenseVector(); a dense field needs a non-empty vector.
\* vectors is nil or [n |-> number of vectors, nonEmpty |-> all non-empty].
ConverterUsesEmbedded(docs, vectors) ==
    (IF vectors = Nil THEN 0 ELSE Deref(vectors).n) = Len(docs)

DocumentConverterFails_NeverFails(conf, docs, vectors) == FALSE
DocumentConverterFails(conf, docs, vectors) ==
    /\ conf.dense
    /\ \E i \in 1..Len(docs) :
          IF ConverterUsesEmbedded(docs, vectors)
          THEN vectors # Nil /\ ~Deref(vectors).nonEmpty
          ELSE ~docs[i].hasDense

\* defaultDocumentConverter, the columns: where the dense column's vectors
\* come from ("none" without a dense field), one row per document
DocumentConverter(conf, docs, vectors) ==
    [rows |-> Len(docs),
     dense |-> IF ~conf.dense THEN "none"
               ELSE IF ConverterUsesEmbedded(docs, vectors) THEN "embedded"
               ELSE "document"]

InitOpsVars ==
    /\ op = ""
    /\ cpc = "idle"
    /\ inflight = {}
    /\ ocalls = <<>>
    /\ cb = <<>>
    /\ operr = ""
    /\ sconf \in [dense : BOOLEAN, embedding : BOOLEAN]
    /\ sdocs \in SeqsUpTo(DocSet, MaxDocs)
    /\ svectors = Nil
    /\ sids = Nil
    /\ scolumns = Nil
    /\ sanswers = <<>>
    /\ trace = <<>>
    /\ gpc = "none"
    /\ events = 0
    /\ pipe = <<>>
    /\ pipeClosed = FALSE
    /\ readerClosed = FALSE
    /\ received = 0

IdleOps ==
    /\ op = ""
    /\ cpc = "idle"
    /\ inflight = {}
    /\ ocalls = <<>>
    /\ cb = <<>>
    /\ operr = ""
    /\ sconf = [dense |-> FALSE, embedding |-> FALSE]
    /\ sdocs = <<>>
    /\ svectors = Nil
    /\ sids = Nil
    /\ scolumns = Nil
    /\ sanswers = <<>>
    /\ trace = <<>>
    /\ gpc = "none"
    /\ events = 0
    /\ pipe = <<>>
    /\ pipeClosed = FALSE
    /\ readerClosed = FALSE
    /\ received = 0

streamVars == <<gpc, events, pipe, pipeClosed, readerClosed, received>>

\* what a step appended to a log
Grown(old, new) == SubSeq(new, Len(old) + 1, Len(new))

\* Store, entry: OnStart, then embedDocuments.  With a nil embedder there is
\* nothing to wait for and the call goes on to upsertDocuments.
StoreCall ==
    /\ cpc = "idle"
    /\ op' = "Store"
    /\ IF sconf.embedding
       THEN /\ cb' = <<"OnStart">>
            /\ inflight' = {"EmbedStrings"}
            /\ ocalls' = <<"EmbedStrings">>
            /\ cpc' = "embed"
            /\ UNCHANGED <<operr, svectors, scolumns>>
       ELSE /\ svectors' = Nil
            /\ IF DocumentConverterFails(sconf, sdocs, Nil)
               THEN /\ operr' = "[Indexer.Store] failed to convert documents"
                    /\ cb' = <<"OnStart", "OnError">>
                    /\ cpc' = "returned"
                    /\ UNCHANGED <<inflight, ocalls, scolumns>>
               ELSE /\ scolumns' = Ptr(DocumentConverter(sconf, sdocs, Nil))
                    /\ inflight' = {"Upsert"}
                    /\ ocalls' = <<"Upsert">>
                    /\ cb' = <<"OnStart">>
                    /\ cpc' = "upsert"
                    /\ UNCHANGED operr
    /\ trace' = <<"OnStart">> \o Tail(cb') \o ocalls'   \* OnStart comes first
    /\ UNCHANGED <<sconf, sdocs, sids, sanswers, streamVars>>
    /\ UNCHANGED notOps

\* embedDocuments: len(vectors) != len(docs) is a length mismatch
EmbedResultAccepted_AnyLength(n, docs) == TRUE
EmbedResultAccepted(n, docs) == n = Len(docs)

\* emb.EmbedStrings answers: an error, or some number of vectors (checked
\* against the number of documents); then upsertDocuments starts.
StoreEmbedded ==
    /\ op = "Store" /\ cpc = "embed"
    /\ \/ /\ sanswers' = Append(sanswers, "EmbedStrings: error")
          /\ operr' = "[Indexer.Store] failed to embed documents"
          /\ cb' = cb \o <<"OnError">>
          /\ cpc' = "returned"
          /\ inflight' = {}
          /\ UNCHANGED <<svectors, ocalls, scolumns>>
       \/ \E n \in 0..MaxDocs, ne \in BOOLEAN :
             LET v == Ptr([n |-> n, nonEmpty |-> ne])
             IN  /\ sanswers' = Append(sanswers,
                                   IF n = Len(sdocs) THEN "EmbedStrings: vectors"
                                   ELSE "EmbedStrings: wrong length")
                 /\ IF ~EmbedResultAccepted(n, sdocs)
                    THEN /\ operr' = "[Indexer.Store] embedding result length mismatch"
                         /\ cb' = cb \o <<"OnError">>
                         /\ cpc' = "returned"
                         /\ inflight' = {}
                         /\ UNCHANGED <<svectors, ocalls, scolumns>>
                    ELSE /\ svectors' = v
                         /\ IF DocumentConverterFails(sconf, sdocs, v)
                            THEN /\ operr' = "[Indexer.Store] failed to convert documents"
                                 /\ cb' = cb \o <<"OnError">>
                                 /\ cpc' = "returned"
                                 /\ inflight' = {}
                                 /\ UNCHANGED <<ocalls, scolumns>>
                            ELSE /\ scolumns' = Ptr(DocumentConverter(sconf, sdocs, v))
                                 /\ inflight' = {"Upsert"}
                                 /\ ocalls' = Append(ocalls, "Upsert")
                                 /\ cpc' = "upsert"
                                 /\ UNCHANGED <<operr, cb>>
    /\ trace' = trace \o Grown(cb, cb') \o Grown(ocalls, ocalls')
    /\ UNCHANGED <<op, sconf, sdocs, sids, streamVars>>
    /\ UNCHANGED notOps

\* client.Upsert answers: an error, ids that cannot be read, or the ids;
\* OnEnd and return.
StoreUpserted_FireAndForget ==
    /\ op = "Store" /\ cpc = "upsert"
    /\ sids' = Ptr(Len(sdocs))
    /\ cb' = cb \o <<"OnEnd">>
    /\ trace' = trace \o <<"OnEnd">>
    /\ cpc' = "returned"
    /\ UNCHANGED <<inflight, operr, sanswers>>
    /\ UNCHANGED <<op, ocalls, sconf, sdocs, svectors, scolumns, streamVars>>
    /\ UNCHANGED notOps
StoreUpserted ==
    /\ op = "Store" /\ cpc = "upsert"
    /\ inflight' = {}
    /\ \/ /\ sanswers' = Append(sanswers, "Upsert: error")
          /\ operr' = "[Indexer.Store] failed to upsert documents"
          /\ cb' = cb \o <<"OnError">>
          /\ UNCHANGED sids
       \/ /\ sanswers' = Append(sanswers, "Upsert: unreadable id")
          /\ operr' = "[Indexer.Store] failed to get id"
          /\ cb' = cb \o <<"OnError">>
          /\ UNCHANGED sids
       \/ /\ sanswers' = Append(sanswers, "Upsert: ids")
          /\ sids' = Ptr(Len(sdocs))
          /\ cb' = cb \o <<"OnEnd">>
          /\ UNCHANGED operr
    /\ trace' = trace \o Grown(cb, cb')
    /\ cpc' = "returned"
    /\ UNCHANGED <<op, ocalls, sconf, sdocs, svectors, scolumns, streamVars>>
    /\ UNCHANGED notOps

(***************************************************************************)
(* Retriever.Retrieve                                                      *)
(***************************************************************************)
\* Retrieve, entry: OnStart, then config.SearchMode.Retrieve.  The search
\* mode fails before any request, or embeds the query first, or goes
\* straight to the backend.
RetrieveCall ==
    /\ cpc = "idle"
    /\ op' = "Retrieve"
    /\ \/ /\ operr' = "[Retriever.Retrieve] search mode failed"
          /\ cb' = <<"OnStart", "OnError">>
          /\ trace' = <<"OnStart", "OnError">>
          /\ cpc' = "returned"
          /\ UNCHANGED <<inflight, ocalls>>
       \/ \E first \in {"EmbedStrings", "Search"} :
             /\ cb' = <<"OnStart">>
             /\ inflight' = {first}
             /\ ocalls' = <<first>>
             /\ trace' = <<"OnStart", first>>
             /\ cpc' = IF first = "EmbedStrings" THEN "embed" ELSE "search"
             /\ UNCHANGED operr
    /\ UNCHANGED <<sconf, sdocs, svectors, sids, scolumns, sanswers, streamVars>>
    /\ UNCHANGED notOps

\* the embedder answers the search mode: an error, which Retrieve returns,
\* or the query vector, and the search mode sends the search
RetrieveEmbedded ==
    /\ op = "Retrieve" /\ cpc = "embed"
    /\ \/ /\ operr' = "[Retriever.Retrieve] failed to embed query"
          /\ cb' = cb \o <<"OnError">>
          /\ trace' = trace \o <<"OnError">>
          /\ inflight' = {}
          /\ cpc' = "returned"
          /\ UNCHANGED ocalls
       \/ /\ inflight' = {"Search"}
          /\ ocalls' = Append(ocalls, "Search")
          /\ trace' = Append(trace, "Search")
          /\ cpc' = "search"
          /\ UNCHANGED <<cb, operr>>
    /\ UNCHANGED <<op, sconf, sdocs, svectors, sids, scolumns, sanswers, streamVars>>
    /\ UNCHANGED notOps

\* the backend answers the search mode; Retrieve: err != nil returns the
\* error and the deferred function emits OnError, otherwise OnEnd
RetrieveSearched_AlwaysOnEnd ==
    /\ op = "Retrieve" /\ cpc = "search"
    /\ inflight' = {}
    /\ \/ operr' = "[Retriever.Retrieve] failed to search"
       \/ UNCHANGED operr
    /\ cb' = cb \o <<"OnEnd">>
    /\ trace' = trace \o <<"OnEnd">>
    /\ cpc' = "returned"
    /\ UNCHANGED <<op, ocalls, sconf, sdocs, svectors, sids, scolumns, sanswers, streamVars>>
    /\ UNCHANGED notOps
RetrieveSearched ==
    /\ op = "Retrieve" /\ cpc = "search"
    /\ inflight' = {}
    /\ \/ /\ operr' = "[Retriever.Retrieve] failed to search"
          /\ cb' = cb \o <<"OnError">>
          /\ trace' = trace \o <<"OnError">>
       \/ /\ cb' = cb \o <<"OnEnd">>
          /\ trace' = trace \o <<"OnEnd">>
          /\ UNCHANGED operr
    /\ cpc' = "returned"
    /\ UNCHANGED <<op, ocalls, sconf, sdocs, svectors, sids, scolumns, sanswers, streamVars>>
    /\ UNCHANGED notOps

(***************************************************************************)
(* ResponsesAPIChatModel.Stream                                            *)
(***************************************************************************)
PipeCap == 1

StreamInputs ==
    {<<[id |-> 1, role |-> UserRole, content |-> c, respID |-> Nil, expireAt |-> Nil]>> :
        c \in BOOLEAN}

storeVars == <<sconf, sdocs, svectors, sids, scolumns, sanswers, trace>>

\* Stream, entry: getOptions, genRequestAndOptions, OnStart, and the request
\* that opens the stream.
StreamCall ==
    /\ cpc = "idle"
    /\ op' = "Stream"
    /\ \E in \in StreamInputs :
          IF genRequestAndOptions(in, cmCache, Nil, now).err # ""
          THEN /\ operr' = "genRequestAndOptions failed"
               /\ cpc' = "returned"
               /\ UNCHANGED <<cb, inflight, ocalls>>
          ELSE /\ cb' = <<"OnStart">>
               /\ inflight' = {"CreateResponsesStream"}
               /\ ocalls' = <<"CreateResponsesStream">>
               /\ cpc' = "open"
               /\ UNCHANGED operr
    /\ UNCHANGED <<storeVars, streamVars>>
    /\ UNCHANGED notOps

\* client.CreateResponsesStream answers.  On success Stream makes the pipe,
\* starts the goroutine ("go func") and returns the stream to the caller.
StreamOpened ==
    /\ op = "Stream" /\ cpc = "open"
    /\ \/ /\ operr' = "failed to create responses"
          /\ cb' = cb \o <<"OnError">>
          /\ inflight' = {}
          /\ UNCHANGED <<gpc, events>>
       \/ /\ \E n \in 0..MaxEvents : events' = n
          /\ gpc' = "recv"
          /\ inflight' = {"Recv"}
          /\ cb' = cb \o <<"OnEndWithStreamOutput">>
          /\ UNCHANGED operr
    /\ cpc' = "returned"
    /\ UNCHANGED <<op, ocalls, storeVars, pipe, pipeClosed, readerClosed, received>>
    /\ UNCHANGED notOps

\* goroutine, receivedStreamResponse: streamReader.Recv() answers with an
\* event that carries a chunk, with an event that carries none (the loop
\* calls Recv again), with io.EOF, or with an error (which is forwarded as a
\* chunk before the loop ends).
GoroutineRecv ==
    /\ gpc = "recv"
    /\ \/ /\ events > 0
          /\ events' = events - 1
          /\ gpc' = "send"
          /\ inflight' = {}
       \/ /\ events > 0
          /\ events' = events - 1
          /\ UNCHANGED <<gpc, inflight>>
       \/ /\ events = 0
          /\ gpc' = "closing"
          /\ inflight' = {}
          /\ UNCHANGED events
       \/ /\ gpc' = "senderr"
          /\ inflight' = {}
          /\ UNCHANGED events
    /\ UNCHANGED <<op, cpc, ocalls, cb, operr, storeVars, pipe, pipeClosed,
                   readerClosed, received>>
    /\ UNCHANGED notOps

\* goroutine: sw.Send blocks until the pipe has room; after a chunk the
\* loop calls Recv again, after an error it ends.
GoroutineSend ==
    /\ gpc \in {"send", "senderr"}
    /\ Len(pipe) < PipeCap
    /\ pipe' = Append(pipe, IF gpc = "send" THEN "chunk" ELSE "error")
    /\ IF gpc = "send"
       THEN gpc' = "recv" /\ inflight' = {"Recv"}
       ELSE gpc' = "closing" /\ UNCHANGED inflight
    /\ UNCHANGED <<op, cpc, ocalls, cb, operr, storeVars, events, pipeClosed,
                   readerClosed, received>>
    /\ UNCHANGED notOps

\* goroutine, deferred: responseStreamReader.Close() and sw.Close()
GoroutineClose ==
    /\ gpc = "closing"
    /\ readerClosed' = TRUE
    /\ pipeClosed' = TRUE
    /\ gpc' = "done"
    /\ UNCHANGED <<op, cpc, inflight, ocalls, cb, operr, storeVars, events, pipe,
                   received>>
    /\ UNCHANGED notOps

\* the caller reads a chunk from the stream Stream returned
CallerRecv ==
    /\ op = "Stream" /\ cpc = "returned" /\ operr = ""
    /\ pipe # <<>>
    /\ pipe' = Tail(pipe)
    /\ received' = received + 1
    /\ UNCHANGED <<op, cpc, inflight, ocalls, cb, operr, storeVars, gpc, events,
                   pipeClosed, readerClosed>>
    /\ UNCHANGED notOps

NextOps ==
    \/ StoreCall
    \/ StoreEmbedded
    \/ StoreUpserted
    \/ RetrieveCall
    \/ RetrieveEmbedded
    \/ RetrieveSearched
    \/ StreamCall
    \/ StreamOpened
    \/ GoroutineRecv
    \/ GoroutineSend
    \/ GoroutineClose
    \/ CallerRecv

(***************************************************************************)
(* Milvus2 indexer: configuration (IndexerConfig.validate)                 *)
(***************************************************************************)
defaultCollection == "eino_collection"
defaultVectorField == "vector"
defaultSparseVectorField == "sparse_vector"
defaultContentField == "content"
defaultDescription == "defaultDescription"
\* IndexerConfig.DocumentConverter: nil, the caller's, or the one validate builds
NilConverter == "nil"
CustomConverter == "custom"
DefaultConverter == "defaultDocumentConverter"
L2 == "L2"
IP == "IP"
BM25 == "BM25"
SparseMethodAuto == "Auto"
SparseMethodPrecomputed == "Precomputed"

\* configurations NewIndexer is called with
Dimensions == {0, 128}
VectorConfigs ==
    [Dimension : Dimensions, MetricType : {""}, VectorField : {""}]
SparseVectorConfigs ==
    [VectorField : {""}, MetricType : {"", IP},
     Method : {"", SparseMethodAuto, SparseMethodPrecomputed}]
UserFunctions ==
    {<<>>,
     <<[Name |-> "user_bm25", InputFieldNames |-> <<defaultContentField>>,
        OutputFieldNames |-> <<defaultSparseVectorField>>]>>,
     <<[Name |-> "title_bm25", InputFieldNames |-> <<"title">>,
        OutputFieldNames |-> <<"title_sparse">>]>>}
IndexerConfigs ==
    [Client : BOOLEAN, ClientConfig : BOOLEAN, Collection : {""},
     Description : {""}, DocumentConverter : {NilConverter},
     Vector : {Nil} \cup {Ptr(v) : v \in VectorConfigs},
     Sparse : {Nil} \cup {Ptr(s) : s \in SparseVectorConfigs},
     Functions : UserFunctions]

\* the function addDefaultBM25Function builds for a sparse field
bm25Fn(sparseField) ==
    [Name |-> "bm25_auto", InputFieldNames |-> <<defaultContentField>>,
     OutputFieldNames |-> <<sparseField>>]

\* addDefaultBM25Function, the scan: some function lists the field as output
hasSparseFunc_NeverFound(functions, sparseField) == FALSE
hasSparseFunc(functions, sparseField) ==
    \E i \in 1..Len(functions) :
       \E j \in 1..Len(functions[i].OutputFieldNames) :
          functions[i].OutputFieldNames[j] = sparseField

\* addDefaultBM25Function: with Method Auto, a BM25 function writing the
\* sparse field is appended unless some function already outputs that field.
addDefaultBM25Function(c) ==
    IF c.Sparse # Nil /\ Deref(c.Sparse).Method = SparseMethodAuto
    THEN IF hasSparseFunc(c.Functions, Deref(c.Sparse).VectorField)
         THEN c
         ELSE [c EXCEPT !.Functions =
                  Append(@, bm25Fn(Deref(c.Sparse).VectorField))]
    ELSE c

\* validate, Sparse.Method == "": Auto for BM25, Precomputed otherwise
DefaultSparseMethod_AlwaysAuto(metricType) == SparseMethodAuto
DefaultSparseMethod(metricType) ==
    IF metricType = BM25 THEN SparseMethodAuto ELSE SparseMethodPrecomputed

\* validate: the two checks, then the defaults.  Returns the error ("" = nil)
\* and the configuration as validate leaves it.
validate(c) ==
    IF ~c.Client /\ ~c.ClientConfig
    THEN [err |-> "[NewIndexer] milvus client or client config not provided",
          conf |-> c]
    ELSE IF c.Vector = Nil /\ c.Sparse = Nil
    THEN [err |-> "[NewIndexer] at least one vector field (dense or sparse) is required",
          conf |-> c]
    ELSE LET c1 == [c EXCEPT !.Collection =
                       IF @ = "" THEN defaultCollection ELSE @,
                               !.Description =
                       IF @ = "" THEN defaultDescription ELSE @]
             c2 == IF c1.Vector = Nil THEN c1
                   ELSE LET v == Deref(c1.Vector)
                            v1 == [v EXCEPT !.MetricType = IF @ = "" THEN L2 ELSE @]
                            v2 == [v1 EXCEPT !.VectorField =
                                      IF @ = "" THEN defaultVectorField ELSE @]
                        IN  [c1 EXCEPT !.Vector = Ptr(v2)]
             c3 == IF c2.Sparse = Nil THEN c2
                   ELSE LET s == Deref(c2.Sparse)
                            s1 == [s EXCEPT !.VectorField =
                                      IF @ = "" THEN defaultSparseVectorField ELSE @]
                            s2 == [s1 EXCEPT !.MetricType = IF @ = "" THEN BM25 ELSE @]
                            s3 == [s2 EXCEPT !.Method =
                                      IF @ = ""
                                      THEN DefaultSparseMethod(s2.MetricType)
                                      ELSE @]
                        IN  addDefaultBM25Function([c2 EXCEPT !.Sparse = Ptr(s3)])
             c4 == [c3 EXCEPT !.DocumentConverter =
                       IF @ = NilConverter THEN DefaultConverter ELSE @]
         IN  [err |-> "", conf |-> c4]

(***************************************************************************)
(* Milvus2 indexer: the backend                                            *)
(***************************************************************************)
LoadStateNotExist == "NotExist"
LoadStateNotLoad == "NotLoad"
LoadStateLoading == "Loading"
LoadStateLoaded == "Loaded"

VectorFieldNames == {defaultVectorField, defaultSparseVectorField}

NoCollection ==
    [exists |-> FALSE, fields |-> {}, indexed |-> {}, load |-> LoadStateNotExist]

\* States the target collection can be in when NewIndexer is called: absent,
\* or present with at least one vector field; Milvus loads a collection only
\* when every vector field of it has an index.
MilvusStates ==
    {NoCollection} \cup
    {m \in [exists : {TRUE}, fields : (SUBSET VectorFieldNames) \ {{}},
            indexed : SUBSET VectorFieldNames,
            load : {LoadStateNotLoad, LoadStateLoading, LoadStateLoaded}] :
        /\ m.indexed \subseteq m.fields
        /\ (m.load # LoadStateNotLoad => m.indexed = m.fields)}

(***************************************************************************)
(* Milvus2 indexer: NewIndexer (validate, initClient, initCollection)      *)
(***************************************************************************)
\* buildSchema: the vector fields of the collection createCollection makes
buildSchema(conf) ==
    (IF conf.Vector # Nil THEN {Deref(conf.Vector).VectorField} ELSE {}) \cup
    (IF conf.Sparse # Nil THEN {Deref(conf.Sparse).VectorField} ELSE {})

\* createIndex: the dense field first, then the sparse field
IndexFields(conf) ==
    (IF conf.Vector # Nil THEN <<Deref(conf.Vector).VectorField>> ELSE <<>>) \o
    (IF conf.Sparse # Nil THEN <<Deref(conf.Sparse).VectorField>> ELSE <<>>)

\* initCollection, collection absent: conf.Vector != nil && Dimension <= 0
DimensionMissing_Negative(conf) ==
    conf.Vector # Nil /\ Deref(conf.Vector).Dimension < 0
DimensionMissing(conf) ==
    conf.Vector # Nil /\ Deref(conf.Vector).Dimension <= 0

\* initCollection: loadState.State != entity.LoadStateLoaded
NeedsIndexAndLoad_OnlyNotLoad(state) == state = LoadStateNotLoad
NeedsIndexAndLoad(state) == state # LoadStateLoaded

CreateIndexNext(todo) ==
    IF todo = <<>> THEN "LoadCollection" ELSE "DescribeIndex"

Request(name, field, res) == [op |-> name, field |-> field, res |-> res]

InitIxVars ==
    /\ iconf \in IndexerConfigs
    /\ iconf0 = iconf
    /\ ipc = "idle"
    /\ itodo = <<>>
    /\ ixcalls = <<>>
    /\ ixerr = ""
    /\ milvus \in MilvusStates

IdleIx ==
    /\ iconf = [Client |-> FALSE, ClientConfig |-> FALSE, Collection |-> "",
                Description |-> "", DocumentConverter |-> NilConverter,
                Vector |-> Nil, Sparse |-> Nil, Functions |-> <<>>]
    /\ iconf0 = iconf
    /\ ipc = "idle"
    /\ itodo = <<>>
    /\ ixcalls = <<>>
    /\ ixerr = ""
    /\ milvus = NoCollection

\* NewIndexer, entry: conf.validate()
NewIndexer ==
    /\ ipc = "idle"
    /\ LET v == validate(iconf)
       IN  /\ iconf' = v.conf
           /\ ixerr' = v.err
           /\ ipc' = IF v.err # "" THEN "returned" ELSE "initClient"
    /\ UNCHANGED <<itodo, ixcalls, milvus>>
    /\ UNCHANGED <<iconf0, notIx>>

\* initClient: the configured client, or milvusclient.New(conf.ClientConfig)
initClient ==
    /\ ipc = "initClient"
    /\ IF iconf.Client
       THEN ipc' = "HasCollection" /\ UNCHANGED ixerr
       ELSE IF ~iconf.ClientConfig
       THEN /\ ixerr' = "[NewIndexer] either Client or ClientConfig must be provided"
            /\ ipc' = "returned"
       ELSE \/ /\ ixerr' = "[NewIndexer] failed to create milvus client"
               /\ ipc' = "returned"
            \/ ipc' = "HasCollection" /\ UNCHANGED ixerr
    /\ UNCHANGED <<iconf, itodo, ixcalls, milvus>>
    /\ UNCHANGED <<iconf0, notIx>>

\* initCollection: cli.HasCollection, and the dimension check when the
\* collection is reported absent
HasCollection ==
    /\ ipc = "HasCollection"
    /\ \/ /\ ixcalls' = Append(ixcalls, Request("HasCollection", "", "error"))
          /\ ixerr' = "[NewIndexer] failed to check collection"
          /\ ipc' = "returned"
       \/ /\ milvus.exists
          /\ ixcalls' = Append(ixcalls, Request("HasCollection", "", "true"))
          /\ ipc' = "GetLoadState"
          /\ UNCHANGED ixerr
       \/ /\ ~milvus.exists
          /\ ixcalls' = Append(ixcalls, Request("HasCollection", "", "false"))
          /\ IF DimensionMissing(iconf)
             THEN /\ ixerr' = "[NewIndexer] vector dimension is required when collection does not exist"
                  /\ ipc' = "returned"
             ELSE /\ ipc' = "CreateCollection"
                  /\ UNCHANGED ixerr
    /\ UNCHANGED <<iconf, itodo, milvus>>
    /\ UNCHANGED <<iconf0, notIx>>

\* createCollection: buildSchema and cli.CreateCollection
CreateCollection ==
    /\ ipc = "CreateCollection"
    /\ \/ /\ ixcalls' = Append(ixcalls, Request("CreateCollection", "", "error"))
          /\ ixerr' = "[NewIndexer] failed to create collection"
          /\ ipc' = "returned"
          /\ UNCHANGED milvus
       \/ /\ ~milvus.exists
          /\ ixcalls' = Append(ixcalls, Request("CreateCollection", "", "ok"))
          /\ milvus' = [exists |-> TRUE, fields |-> buildSchema(iconf),
                        indexed |-> {}, load |-> LoadStateNotLoad]
          /\ ipc' = "GetLoadState"
          /\ UNCHANGED ixerr
    /\ UNCHANGED <<iconf, itodo>>
    /\ UNCHANGED <<iconf0, notIx>>

\* initCollection: cli.GetLoadState; a loaded collection is accepted as it
\* is, otherwise createIndex starts
GetLoadState ==
    /\ ipc = "GetLoadState"
    /\ \/ /\ ixcalls' = Append(ixcalls, Request("GetLoadState", "", "error"))
          /\ ixerr' = "[NewIndexer] failed to get load state"
          /\ ipc' = "returned"
          /\ UNCHANGED itodo
       \/ /\ ixcalls' = Append(ixcalls, Request("GetLoadState", "", milvus.load))
          /\ IF NeedsIndexAndLoad(milvus.load)
             THEN /\ itodo' = IndexFields(iconf)
                  /\ ipc' = CreateIndexNext(IndexFields(iconf))
             ELSE /\ ipc' = "returned"
                  /\ UNCHANGED itodo
          /\ UNCHANGED ixerr
    /\ UNCHANGED <<iconf, milvus>>
    /\ UNCHANGED <<iconf0, notIx>>

\* createVectorIndex / createSparseIndex: cli.DescribeIndex; err == nil means
\* the index exists and the field is skipped, any error leads to CreateIndex
DescribeIndex ==
    /\ ipc = "DescribeIndex"
    /\ LET field == Head(itodo)
       IN  \/ /\ field \in milvus.indexed
              /\ ixcalls' = Append(ixcalls, Request("DescribeIndex", field, "ok"))
              /\ itodo' = Tail(itodo)
              /\ ipc' = CreateIndexNext(Tail(itodo))
           \/ /\ ixcalls' = Append(ixcalls, Request("DescribeIndex", field, "error"))
              /\ ipc' = "CreateIndex"
              /\ UNCHANGED itodo
    /\ UNCHANGED <<iconf, ixerr, milvus>>
    /\ UNCHANGED <<iconf0, notIx>>

\* createVectorIndex / createSparseIndex: cli.CreateIndex.  The backend
\* accepts an index only on a field of the collection; on a field that has
\* an index it accepts the same index again and refuses a different one
\* ("already exists").  Every error of CreateIndex is returned.
CreateIndex_Unawaited ==
    /\ ipc = "CreateIndex"
    /\ Head(itodo) \in milvus.fields
    /\ ixcalls' = Append(ixcalls, Request("CreateIndex", Head(itodo), "ok"))
    /\ milvus' = [milvus EXCEPT !.indexed = @ \cup {Head(itodo)}]
    /\ itodo' = Tail(itodo)
    /\ ipc' = CreateIndexNext(Tail(itodo))
    /\ UNCHANGED <<iconf, ixerr>>
    /\ UNCHANGED <<iconf0, notIx>>
CreateIndex ==
    /\ ipc = "CreateIndex"
    /\ LET field == Head(itodo)
       IN  \/ /\ ixcalls' = Append(ixcalls, Request("CreateIndex", field, "error"))
              /\ ixerr' = IF field = defaultVectorField
                          THEN "[NewIndexer] failed to create index"
                          ELSE "[NewIndexer] failed to create sparse index"
              /\ ipc' = "returned"
              /\ UNCHANGED milvus
           \/ /\ field \in milvus.indexed
              /\ ixcalls' = Append(ixcalls,
                                   Request("CreateIndex", field, "already exists"))
              /\ ixerr' = IF field = defaultVectorField
                          THEN "[NewIndexer] failed to create index"
                          ELSE "[NewIndexer] failed to create sparse index"
              /\ ipc' = "returned"
              /\ UNCHANGED milvus
           \/ /\ field \in milvus.fields
              /\ ixcalls' = Append(ixcalls, Request("CreateIndex", field, "ok"))
              /\ milvus' = [milvus EXCEPT !.indexed = @ \cup {field}]
              /\ ipc' = "AwaitIndex"
              /\ UNCHANGED ixerr
    /\ UNCHANGED <<iconf, itodo>>
    /\ UNCHANGED <<iconf0, notIx>>

\* createVectorIndex / createSparseIndex: createTask.Await
AwaitIndex ==
    /\ ipc = "AwaitIndex"
    /\ LET field == Head(itodo)
       IN  \/ /\ ixcalls' = Append(ixcalls, Request("AwaitIndex", field, "error"))
              /\ ixerr' = IF field = defaultVectorField
                          THEN "[NewIndexer] failed to await index creation"
                          ELSE "[NewIndexer] failed to await sparse index creation"
              /\ ipc' = "returned"
              /\ UNCHANGED itodo
           \/ /\ ixcalls' = Append(ixcalls, Request("AwaitIndex", field, "ok"))
              /\ itodo' = Tail(itodo)
              /\ ipc' = CreateIndexNext(Tail(itodo))
              /\ UNCHANGED ixerr
    /\ UNCHANGED <<iconf, milvus>>
    /\ UNCHANGED <<iconf0, notIx>>

\* initCollection: cli.LoadCollection.  The backend starts loading only when
\* every vector field of the collection has an index.
LoadCollection ==
    /\ ipc = "LoadCollection"
    /\ \/ /\ ixcalls' = Append(ixcalls, Request("LoadCollection", "", "error"))
          /\ ixerr' = "[NewIndexer] failed to load collection"
          /\ ipc' = "returned"
          /\ UNCHANGED milvus
       \/ /\ milvus.fields \subseteq milvus.indexed
          /\ ixcalls' = Append(ixcalls, Request("LoadCollection", "", "ok"))
          /\ milvus' = [milvus EXCEPT !.load =
                           IF @ = LoadStateLoaded THEN @ ELSE LoadStateLoading]
          /\ ipc' = "AwaitLoad"
          /\ UNCHANGED ixerr
    /\ UNCHANGED <<iconf, itodo>>
    /\ UNCHANGED <<iconf0, notIx>>

\* initCollection: loadTask.Await, then NewIndexer returns the Indexer
AwaitLoad ==
    /\ ipc = "AwaitLoad"
    /\ \/ /\ ixcalls' = Append(ixcalls, Request("AwaitLoad", "", "error"))
          /\ ixerr' = "[NewIndexer] failed to await collection load"
          /\ UNCHANGED milvus
       \/ /\ ixcalls' = Append(ixcalls, Request("AwaitLoad", "", "ok"))
          /\ milvus' = [milvus EXCEPT !.load = LoadStateLoaded]
          /\ UNCHANGED ixerr
    /\ ipc' = "returned"
    /\ UNCHANGED <<iconf, itodo>>
    /\ UNCHANGED <<iconf0, notIx>>

\* the backend finishes a load that was in progress
MilvusLoadDone ==
    /\ milvus.load = LoadStateLoading
    /\ milvus' = [milvus EXCEPT !.load = LoadStateLoaded]
    /\ UNCHANGED <<iconf, ipc, itodo, ixcalls, ixerr>>
    /\ UNCHANGED <<iconf0, notIx>>

NextIndexer ==
    \/ NewIndexer
    \/ initClient
    \/ HasCollection
    \/ CreateCollection
    \/ GetLoadState
    \/ DescribeIndex
    \/ CreateIndex
    \/ AwaitIndex
    \/ LoadCollection
    \/ AwaitLoad
    \/ MilvusLoadDone

(***************************************************************************)
(* Milvus2 retriever: NewRetriever (validate, initClient, loadCollection)  *)
(***************************************************************************)
RetrieverConfigs == [Client : BOOLEAN, ClientConfig : BOOLEAN, SearchMode : BOOLEAN]

\* RetrieverConfig.validate, the two checks ("" = nil)
RetrieverValidateErr(c) ==
    IF ~c.Client /\ ~c.ClientConfig
    THEN "[NewRetriever] milvus client or client config not provided"
    ELSE IF ~c.SearchMode
    THEN "[NewRetriever] search mode not provided"
    ELSE ""

\* loadCollection: loadState.State != entity.LoadStateLoaded
NeedsLoad_Never(state) == FALSE
NeedsLoad(state) == state # LoadStateLoaded

InitLoadVars ==
    /\ lconf \in RetrieverConfigs
    /\ lpc = "idle"
    /\ lcalls = <<>>
    /\ lerr = ""
    /\ lmilvus \in MilvusStates

IdleLoad ==
    /\ lconf = [Client |-> FALSE, ClientConfig |-> FALSE, SearchMode |-> FALSE]
    /\ lpc = "idle"
    /\ lcalls = <<>>
    /\ lerr = ""
    /\ lmilvus = NoCollection

\* NewRetriever, entry: conf.validate() and initClient
RetrieverInit ==
    /\ lpc = "idle"
    /\ IF RetrieverValidateErr(lconf) # ""
       THEN /\ lerr' = RetrieverValidateErr(lconf)
            /\ lpc' = "returned"
       ELSE IF lconf.Client
       THEN lpc' = "HasCollection" /\ UNCHANGED lerr
       ELSE \/ /\ lerr' = "[NewRetriever] failed to create milvus client"
               /\ lpc' = "returned"
            \/ lpc' = "HasCollection" /\ UNCHANGED lerr
    /\ UNCHANGED <<lconf, lcalls, lmilvus>>
    /\ UNCHANGED notLoad

\* loadCollection: cli.HasCollection; an absent collection is an error
LoadHasCollection ==
    /\ lpc = "HasCollection"
    /\ \/ /\ lcalls' = Append(lcalls, Request("HasCollection", "", "error"))
          /\ lerr' = "[NewRetriever] failed to check collection"
          /\ lpc' = "returned"
       \/ /\ ~lmilvus.exists
          /\ lcalls' = Append(lcalls, Request("HasCollection", "", "false"))
          /\ lerr' = "[NewRetriever] collection not found"
          /\ lpc' = "returned"
       \/ /\ lmilvus.exists
          /\ lcalls' = Append(lcalls, Request("HasCollection", "", "true"))
          /\ lpc' = "GetLoadState"
          /\ UNCHANGED lerr
    /\ UNCHANGED <<lconf, lmilvus>>
    /\ UNCHANGED notLoad

\* loadCollection: cli.GetLoadState; a loaded collection needs nothing more
LoadGetLoadState ==
    /\ lpc = "GetLoadState"
    /\ \/ /\ lcalls' = Append(lcalls, Request("GetLoadState", "", "error"))
          /\ lerr' = "[NewRetriever] failed to get load state"
          /\ lpc' = "returned"
       \/ /\ lcalls' = Append(lcalls, Request("GetLoadState", "", lmilvus.load))
          /\ lpc' = IF NeedsLoad(lmilvus.load) THEN "LoadCollection" ELSE "returned"
          /\ UNCHANGED lerr
    /\ UNCHANGED <<lconf, lmilvus>>
    /\ UNCHANGED notLoad

\* loadCollection: cli.LoadCollection.  The backend starts loading only when
\* every vector field of the collection has an index.
LoadLoadCollection ==
    /\ lpc = "LoadCollection"
    /\ \/ /\ lcalls' = Append(lcalls, Request("LoadCollection", "", "error"))
          /\ lerr' = "[NewRetriever] failed to load collection"
          /\ lpc' = "returned"
          /\ UNCHANGED lmilvus
       \/ /\ lmilvus.fields \subseteq lmilvus.indexed
          /\ lcalls' = Append(lcalls, Request("LoadCollection", "", "ok"))
          /\ lmilvus' = [lmilvus EXCEPT !.load =
                            IF @ = LoadStateLoaded THEN @ ELSE LoadStateLoading]
          /\ lpc' = "AwaitLoad"
          /\ UNCHANGED lerr
    /\ UNCHANGED lconf
    /\ UNCHANGED notLoad

\* loadCollection: loadTask.Await, then NewRetriever returns the Retriever
LoadAwait ==
    /\ lpc = "AwaitLoad"
    /\ \/ /\ lcalls' = Append(lcalls, Request("AwaitLoad", "", "error"))
          /\ lerr' = "[NewRetriever] failed to await collection load"
          /\ UNCHANGED lmilvus
       \/ /\ lcalls' = Append(lcalls, Request("AwaitLoad", "", "ok"))
          /\ lmilvus' = [lmilvus EXCEPT !.load = LoadStateLoaded]
          /\ UNCHANGED lerr
    /\ lpc' = "returned"
    /\ UNCHANGED lconf
    /\ UNCHANGED notLoad

\* the backend finishes a load that was in progress
LoadBackendDone ==
    /\ lmilvus.load = LoadStateLoading
    /\ lmilvus' = [lmilvus EXCEPT !.load = LoadStateLoaded]
    /\ UNCHANGED <<lconf, lpc, lcalls, lerr>>
    /\ UNCHANGED notLoad

NextLoad ==
    \/ RetrieverInit
    \/ LoadHasCollection
    \/ LoadGetLoadState
    \/ LoadLoadCollection
    \/ LoadAwait
    \/ LoadBackendDone

(***************************************************************************)
(* Milvus2 retriever, iterator search mode (search_mode/iterator.go)       *)
(***************************************************************************)
IterOptTopKs == {1, MaxHits}

Min(a, b) == IF a <= b THEN a ELSE b

\* hits of rank a+1 .. a+k, in rank order
Hits(a, k) == [i \in 1..k |-> a + i]

\* BuildSearchIteratorOption: conf.TopK unless the option sets TopK
IteratorLimit(conf, opts) ==
    LET co == GetCommonOptions([TopK |-> Ptr(conf.TopK)], opts)
    IN  IF co.TopK # Nil THEN Deref(co.TopK) ELSE conf.TopK

\* Retrieve: allDocs = append(allDocs, batchDocs...)
AppendBatch_KeepsLast(all, batchDocs) == batchDocs
AppendBatch(all, batchDocs) == all \o batchDocs

\* where the backend cursor ends: the iterator limit or the last hit
IterEnd == Min(iterLimit, iterHits)

InitIterVars ==
    /\ iterConf \in {RetrieverValidate(c) :
                       c \in [TopK : ConfTopKs, Embedding : BOOLEAN]}
    /\ iterOpts \in [TopK : {Nil} \cup {Ptr(k) : k \in IterOptTopKs}]
    /\ iterBatchSize \in 1..MaxBatch
    /\ iterHits \in 0..MaxHits
    /\ iterPc = "idle"
    /\ iterLimit = 0
    /\ iterCursor = 0
    /\ iterBatches = <<>>
    /\ allDocs = <<>>
    /\ iterDocs = Nil
    /\ iterErr = ""
    /\ iterCalls = <<>>

IdleIter ==
    /\ iterConf = [TopK |-> 0, Embedding |-> FALSE]
    /\ iterOpts = [TopK |-> Nil]
    /\ iterBatchSize = 0
    /\ iterHits = 0
    /\ iterPc = "idle"
    /\ iterLimit = 0
    /\ iterCursor = 0
    /\ iterBatches = <<>>
    /\ allDocs = <<>>
    /\ iterDocs = Nil
    /\ iterErr = ""
    /\ iterCalls = <<>>

iterInputs == <<iterConf, iterOpts, iterBatchSize, iterHits>>

\* Iterator.Retrieve, entry: a nil embedder is rejected, otherwise EmbedQuery
IterRetrieve ==
    /\ iterPc = "idle"
    /\ IF ~iterConf.Embedding
       THEN /\ iterErr' = "embedding is required for iterator search"
            /\ iterPc' = "returned"
            /\ UNCHANGED iterCalls
       ELSE /\ iterCalls' = Append(iterCalls, "EmbedStrings")
            /\ iterPc' = "embed"
            /\ UNCHANGED iterErr
    /\ UNCHANGED <<iterInputs, iterLimit, iterCursor, iterBatches, allDocs, iterDocs>>
    /\ UNCHANGED notIter

\* EmbedQuery answers; BuildSearchIteratorOption; client.SearchIterator
IterEmbedded ==
    /\ iterPc = "embed"
    /\ \/ /\ iterErr' = "failed to embed query"
          /\ iterPc' = "returned"
          /\ UNCHANGED <<iterCalls, iterLimit>>
       \/ /\ iterLimit' = IteratorLimit(iterConf, iterOpts)
          /\ iterCalls' = Append(iterCalls, "SearchIterator")
          /\ iterPc' = "open"
          /\ UNCHANGED iterErr
    /\ UNCHANGED <<iterInputs, iterCursor, iterBatches, allDocs, iterDocs>>
    /\ UNCHANGED notIter

\* client.SearchIterator answers; the loop starts with iterator.Next
IterOpened ==
    /\ iterPc = "open"
    /\ \/ /\ iterErr' = "failed to create search iterator"
          /\ iterPc' = "returned"
          /\ UNCHANGED iterCalls
       \/ /\ iterCalls' = Append(iterCalls, "Next")
          /\ iterPc' = "next"
          /\ UNCHANGED iterErr
    /\ UNCHANGED <<iterInputs, iterLimit, iterCursor, iterBatches, allDocs, iterDocs>>
    /\ UNCHANGED notIter

\* iterator.Next answers: an error, io.EOF or an empty batch at the end of
\* the cursor, or a batch of at most BatchSize hits, which is converted and
\* appended before Next is called again.
IterNext ==
    /\ iterPc = "next"
    /\ \/ /\ iterErr' = "iterator next failed"
          /\ iterPc' = "returned"
          /\ UNCHANGED <<iterCursor, iterBatches, allDocs, iterDocs, iterCalls>>
       \/ /\ iterCursor = IterEnd
          /\ \/ UNCHANGED iterBatches
             \/ iterBatches' = Append(iterBatches, <<>>)
          /\ iterDocs' = Ptr(allDocs)
          /\ iterPc' = "returned"
          /\ UNCHANGED <<iterCursor, allDocs, iterErr, iterCalls>>
       \/ \E k \in 1..Min(iterBatchSize, IterEnd - iterCursor) :
             LET res == Hits(iterCursor, k)
             IN  /\ iterCursor' = iterCursor + k
                 /\ iterBatches' = Append(iterBatches, res)
                 /\ \/ /\ iterErr' = "failed to convert batch results"
                       /\ iterPc' = "returned"
                       /\ UNCHANGED <<allDocs, iterCalls>>
                    \/ /\ allDocs' = AppendBatch(allDocs, res)
                       /\ iterCalls' = Append(iterCalls, "Next")
                       /\ UNCHANGED <<iterPc, iterErr>>
                 /\ UNCHANGED iterDocs
    /\ UNCHANGED <<iterInputs, iterLimit>>
    /\ UNCHANGED notIter

NextIter ==
    \/ IterRetrieve
    \/ IterEmbedded
    \/ IterOpened
    \/ IterNext

(***************************************************************************)
(* Milvus2 retriever, scalar search mode (search_mode/scalar.go)           *)
(***************************************************************************)
\* Go strings are sequences of characters here: "" is <<>>, + is \o.
ScalarQueries ==
    {<<>>, <<"i", "d", ">", "1">>, <<"a", "|", "b">>}
ScalarFilters ==
    {<<>>, <<"c", "=", "A">>, <<"x", "|", "y">>}
ScalarOptTopKs == {1}

\* BuildQueryOption, the filter expression: query and io.Filter with AND
ScalarExpr_NoParentheses(query, filter) ==
    IF filter # <<>>
    THEN IF query # <<>>
         THEN query \o <<" ", "a", "n", "d", " ">> \o filter
         ELSE filter
    ELSE query
ScalarExpr(query, filter) ==
    IF filter # <<>>
    THEN IF query # <<>>
         THEN <<"(">> \o query \o <<")", " ", "a", "n", "d", " ", "(">>
                 \o filter \o <<")">>
         ELSE filter
    ELSE query

\* BuildQueryOption: the filter expression and the limit
BuildQueryOption(conf, query, opts) ==
    LET co == GetCommonOptions([TopK |-> Ptr(conf.TopK)], opts)
        finalTopK == IF co.TopK # Nil THEN Deref(co.TopK) ELSE conf.TopK
    IN  [expr |-> ScalarExpr(query, opts.Filter), limit |-> finalTopK]

InitScalarVars ==
    /\ scConf \in {RetrieverValidate(c) :
                     c \in [TopK : ConfTopKs, Embedding : BOOLEAN]}
    /\ scQuery \in ScalarQueries
    /\ scOpts \in [Filter : ScalarFilters,
                   TopK : {Nil} \cup {Ptr(k) : k \in ScalarOptTopKs}]
    /\ scPc = "idle"
    /\ scQueryOpt = Nil
    /\ scDocs = Nil
    /\ scErr = ""
    /\ scCalls = <<>>

IdleScalar ==
    /\ scConf = [TopK |-> 0, Embedding |-> FALSE]
    /\ scQuery = <<>>
    /\ scOpts = [Filter |-> <<>>, TopK |-> Nil]
    /\ scPc = "idle"
    /\ scQueryOpt = Nil
    /\ scDocs = Nil
    /\ scErr = ""
    /\ scCalls = <<>>

\* Scalar.Retrieve, entry: BuildQueryOption, then client.Query
ScalarRetrieve ==
    /\ scPc = "idle"
    /\ scQueryOpt' = Ptr(BuildQueryOption(scConf, scQuery, scOpts))
    /\ scCalls' = Append(scCalls, "Query")
    /\ scPc' = "query"
    /\ UNCHANGED <<scConf, scQuery, scOpts, scDocs, scErr>>
    /\ UNCHANGED notScalar

\* client.Query answers; the result set is converted to documents
ScalarQueried ==
    /\ scPc = "query"
    /\ \/ /\ scErr' = "failed to query"
          /\ UNCHANGED scDocs
       \/ \E n \in 0..Min(MaxRows, Deref(scQueryOpt).limit) :
             /\ scDocs' = Ptr(n)
             /\ UNCHANGED scErr
    /\ scPc' = "returned"
    /\ UNCHANGED <<scConf, scQuery, scOpts, scQueryOpt, scCalls>>
    /\ UNCHANGED notScalar

NextScalar ==
    \/ ScalarRetrieve
    \/ ScalarQueried

(***************************************************************************)
(* Milvus2 indexer: toMilvusSparseEmbedding                                *)
(***************************************************************************)
\* uint32(idx) keeps the low 32 bits of the (64-bit) int idx.  The widths
\* are scaled down: the model's uint32 has UintBits bits, and the int
\* indices below reach past it.
UintBits == 3
UintModulus == 2 ^ UintBits
Uint32(idx) == idx % UintModulus

SparseIndices == {-1, 0, 1, UintModulus, UintModulus + 1}

\* float64 weights, and float32(w): 0.5 is a float32, 0.1 is rounded
Weights == {"0.5", "0.1"}
Float32(w) == IF w = "0.1" THEN "float32(0.1)" ELSE w

SparseVectors == UNION {[D -> Weights] : D \in SUBSET SparseIndices}

\* sort.Ints over the keys of the map
RECURSIVE SortInts(_)
SortInts(S) ==
    IF S = {} THEN <<>>
    ELSE LET m == CHOOSE x \in S : \A y \in S : x <= y
         IN  <<m>> \o SortInts(S \ {m})

\* the loop's check on each sorted index: idx < 0
RejectedIndex(idx) == idx < 0

\* toMilvusSparseEmbedding: the error ("" = nil) and the indices and values
\* it hands to entity.NewSliceSparseEmbedding
toMilvusSparseEmbedding(sv) ==
    IF DOMAIN sv = {}
    THEN [err |-> "", out |-> Ptr([indices |-> <<>>, values |-> <<>>])]
    ELSE LET indices == SortInts(DOMAIN sv)
         IN  IF \E i \in 1..Len(indices) : RejectedIndex(indices[i])
             THEN [err |-> "negative sparse index", out |-> Nil]
             ELSE [err |-> "",
                   out |-> Ptr([indices |-> [i \in 1..Len(indices) |->
                                               Uint32(indices[i])],
                                values |-> [i \in 1..Len(indices) |->
                                               Float32(sv[indices[i]])]])]

InitSparseVars ==
    /\ svMap \in SparseVectors
    /\ svPc = "idle"
    /\ svOut = Nil
    /\ svErr = ""

IdleSparse ==
    /\ svMap = <<>>
    /\ svPc = "idle"
    /\ svOut = Nil
    /\ svErr = ""

\* one call of toMilvusSparseEmbedding(svMap)
ConvertSparse ==
    /\ svPc = "idle"
    /\ svOut' = toMilvusSparseEmbedding(svMap).out
    /\ svErr' = toMilvusSparseEmbedding(svMap).err
    /\ svPc' = "returned"
    /\ UNCHANGED svMap
    /\ UNCHANGED notSparse

NextSparse == ConvertSparse

(***************************************************************************)
(* Milvus2 indexer: IndexerConfig.validate called repeatedly               *)
(***************************************************************************)
\* the configurations validate is called on: every field validate reads or
\* assigns is either unset or set by the caller
ValidateConfigs ==
    [Client : BOOLEAN, ClientConfig : BOOLEAN,
     Collection : {"", "docs"}, Description : {"", "my docs"},
     DocumentConverter : {NilConverter, CustomConverter},
     Vector : {Nil} \cup
              {Ptr(v) : v \in [Dimension : {128}, MetricType : {"", IP},
                               VectorField : {"", "embedding"}]},
     Sparse : {Nil} \cup
              {Ptr(s) : s \in [VectorField : {"", "title_sparse"},
                               MetricType : {"", IP},
                               Method : {"", SparseMethodAuto,
                                         SparseMethodPrecomputed}]},
     Functions : UserFunctions]

InitValidateVars ==
    /\ vconf \in ValidateConfigs
    /\ vonce = vconf
    /\ vcalls = 0
    /\ verr = ""

IdleValidate ==
    /\ vconf = [Client |-> FALSE, ClientConfig |-> FALSE, Collection |-> "",
                Description |-> "", DocumentConverter |-> NilConverter,
                Vector |-> Nil, Sparse |-> Nil, Functions |-> <<>>]
    /\ vonce = vconf
    /\ vcalls = 0
    /\ verr = ""

\* one more call of vconf.validate(); the receiver is a pointer, so the
\* call works on the config the previous call left
ValidateCall ==
    /\ vcalls < MaxValidate
    /\ vconf' = validate(vconf).conf
    /\ verr' = validate(vconf).err
    /\ vonce' = IF vcalls = 0 THEN validate(vconf).conf ELSE vonce
    /\ vcalls' = vcalls + 1
    /\ UNCHANGED notValidate

NextValidate == ValidateCall

IdleHybrid ==
    /\ rpc = "idle"
    /\ rconf = [TopK |-> 0, Embedding |-> FALSE]
    /\ hy = [TopK |-> 0, SubRequests |-> <<>>]
    /\ ropts = [TopK |-> Nil]
    /\ queryVector = 0
    /\ hybridOpt = Nil
    /\ rerr = ""
    /\ rcalls = <<>>

(***************************************************************************)
(* Specifications                                                          *)
(***************************************************************************)
InitHybrid == InitHybridVars /\ IdleArk /\ IdleOps /\ IdleIx /\ IdleLoad /\ IdleIter /\ IdleScalar /\ IdleSparse /\ IdleValidate

SpecHybrid == InitHybrid /\ [][NextHybrid]_vars

InitArk == InitArkVars /\ IdleHybrid /\ IdleOps /\ IdleIx /\ IdleLoad /\ IdleIter /\ IdleScalar /\ IdleSparse /\ IdleValidate

SpecArk == InitArk /\ [][NextArk]_vars

InitOps == InitOpsVars /\ IdleHybrid /\ IdleArk /\ IdleIx /\ IdleLoad /\ IdleIter /\ IdleScalar /\ IdleSparse /\ IdleValidate

SpecOps == InitOps /\ [][NextOps]_vars

InitIndexer == InitIxVars /\ IdleHybrid /\ IdleArk /\ IdleOps /\ IdleLoad /\ IdleIter /\ IdleScalar /\ IdleSparse /\ IdleValidate

SpecIndexer == InitIndexer /\ [][NextIndexer]_vars

InitLoad == InitLoadVars /\ IdleHybrid /\ IdleArk /\ IdleOps /\ IdleIx /\ IdleIter /\ IdleScalar /\ IdleSparse /\ IdleValidate

SpecLoad == InitLoad /\ [][NextLoad]_vars

InitIter == InitIterVars /\ IdleHybrid /\ IdleArk /\ IdleOps /\ IdleIx /\ IdleLoad /\ IdleScalar /\ IdleSparse /\ IdleValidate

SpecIter == InitIter /\ [][NextIter]_vars

InitScalar == InitScalarVars /\ IdleHybrid /\ IdleArk /\ IdleOps /\ IdleIx /\ IdleLoad /\ IdleIter /\ IdleSparse /\ IdleValidate

SpecScalar == InitScalar /\ [][NextScalar]_vars

InitSparse == InitSparseVars /\ IdleHybrid /\ IdleArk /\ IdleOps /\ IdleIx /\ IdleLoad /\ IdleIter /\ IdleScalar /\ IdleValidate

SpecSparse == InitSparse /\ [][NextSparse]_vars

InitValidate == InitValidateVars /\ IdleHybrid /\ IdleArk /\ IdleOps /\ IdleIx /\ IdleLoad /\ IdleIter /\ IdleScalar /\ IdleSparse

SpecValidate == InitValidate /\ [][NextValidate]_vars

(***************************************************************************)
(* Claims about the hybrid search mode                                     *)
(***************************************************************************)
HybridBuilt == rpc \in {"search", "done"} /\ hybridOpt # Nil

SubIdx == 1..Len(hy.SubRequests)

\* C1: with no per-call TopK option, the final limit of the hybrid request
\* is Hybrid.TopK whenever Hybrid.TopK > 0, and RetrieverConfig.TopK when
\* Hybrid.TopK is 0.
C1_HybridTopKOverridesFinalLimit ==
    (HybridBuilt /\ ropts.TopK = Nil) =>
        Deref(hybridOpt).limit = (IF hy.TopK > 0 THEN hy.TopK ELSE rconf.TopK)

ArkRequestSent == apc = "returned" /\ responseReq # Nil

\* the input messages that carry a response ID and a cache expiration that
\* has not passed (the input of the call is history, read at time now)
CachedIdx ==
    {i \in 1..Len(history) :
        /\ history[i].respID # Nil
        /\ history[i].expireAt # Nil
        /\ Deref(history[i].expireAt) >= now}

MostRecentCached == CHOOSE i \in CachedIdx : \A j \in CachedIdx : j <= i

NoContextID == arkOpt = Nil \/ Deref(arkOpt).ContextID = Nil

\* a cached message is selected: caching is on for the call, no ContextID
CachedSelected ==
    /\ ArkRequestSent
    /\ Deref(responseReq).Caching = cachingEnabled
    /\ NoContextID
    /\ CachedIdx # {}

\* C4: with session caching enabled and no ContextID, the previous-response
\* ID of the request is the response ID of the cached input message closest
\* to the end of the input.
C4_PreviousResponseIsMostRecentCached ==
    CachedSelected =>
        Deref(responseReq).PreviousResponseId = history[MostRecentCached].respID

C4_Witness ==
    /\ CachedSelected
    /\ Cardinality(CachedIdx) >= 2
    /\ Deref(responseReq).PreviousResponseId = history[MostRecentCached].respID

\* C5: when a cached message is selected, it and every message before it are
\* removed from the input, and the messages after it are sent in their
\* original order.
C5_InputTrimmedAfterCached ==
    CachedSelected =>
        LET sel == MostRecentCached
            items == Deref(responseReq).Input
        IN  /\ arkTrimmed = SubSeq(history, sel + 1, Len(history))
            /\ \A k \in 1..Len(items) : items[k].src > sel
            /\ \A k, l \in 1..Len(items) : k < l => items[k].src < items[l].src
            /\ \A j \in (sel + 1)..Len(history) :
                  (history[j].role = UserRole \/ history[j].content) =>
                      \E k \in 1..Len(items) : items[k].src = history[j].id

C5_Witness ==
    /\ CachedSelected
    /\ MostRecentCached >= 2
    /\ Len(arkTrimmed) >= 2
    /\ Len(Deref(responseReq).Input) >= 2

\* C6: when a HeadPreviousResponseID option and a cached input message both
\* exist, the previous-response ID is the message's response ID; the head ID
\* is used only when no cached message is selected.
C6_MessageIDBeatsHeadID ==
    (ArkRequestSent /\ arkOpt # Nil /\ Deref(arkOpt).HeadPreviousResponseID # Nil) =>
        LET prev == Deref(responseReq).PreviousResponseId
            head == Deref(arkOpt).HeadPreviousResponseID
        IN  /\ CachedSelected =>
                  (prev = history[MostRecentCached].respID /\ prev # head)
            /\ prev = head => ~CachedSelected

C6_Witness ==
    /\ CachedSelected
    /\ arkOpt # Nil
    /\ Deref(arkOpt).HeadPreviousResponseID # Nil
    /\ Deref(responseReq).PreviousResponseId = history[MostRecentCached].respID

\* C7: a per-call option carrying a SessionCache overrides the configured
\* one: store is true and caching is enabled iff the option's EnableCache is
\* true, and the expiry is the call time plus the option's TTL.
C7_OptionSessionCacheOverrides ==
    (ArkRequestSent /\ arkOpt # Nil /\ Deref(arkOpt).SessionCache # Nil) =>
        LET o == Deref(Deref(arkOpt).SessionCache)
            r == Deref(responseReq)
        IN  /\ r.Store = o.EnableCache
            /\ (r.Caching = cachingEnabled) = o.EnableCache
            /\ r.ExpireAt = Ptr(now + o.TTL)

C7_Witness ==
    /\ ArkRequestSent
    /\ cmCache # Nil /\ Deref(cmCache).EnableCache
    /\ arkOpt # Nil /\ Deref(arkOpt).SessionCache # Nil
    /\ ~Deref(Deref(arkOpt).SessionCache).EnableCache
    /\ ~Deref(responseReq).Store
    /\ Deref(responseReq).Caching = cachingDisabled

(***************************************************************************)
(* Claims about the operations' concurrency                                *)
(***************************************************************************)
OpReturned == cpc = "returned"

GoroutineRunning == gpc \notin {"none", "done"}

NewIndexerSucceeded == ipc = "returned" /\ ixerr = ""

Issued(name) == \E i \in 1..Len(ixcalls) : ixcalls[i].op = name

Answered(name, res) ==
    \E i \in 1..Len(ixcalls) : ixcalls[i].op = name /\ ixcalls[i].res = res

\* the vector fields the validated configuration names
ConfiguredFields == buildSchema(iconf)

\* C9 as stated: whenever NewIndexer returns without error, the collection
\* exists in the backend, every configured vector field has an index, and
\* the collection is loaded.
C9_SuccessMeansIndexedAndLoaded ==
    NewIndexerSucceeded =>
        /\ milvus.exists
        /\ ConfiguredFields \subseteq milvus.indexed
        /\ milvus.load = LoadStateLoaded

\* C9 amended: whenever NewIndexer returns without error, the collection
\* exists and is loaded; every configured vector field has an index unless
\* GetLoadState reported the collection as already loaded, in which case
\* NewIndexer issued no index or load request at all.
C9_SuccessMeansLoadedAndIndexedUnlessPreloaded ==
    NewIndexerSucceeded =>
        /\ milvus.exists
        /\ milvus.load = LoadStateLoaded
        /\ IF Answered("GetLoadState", LoadStateLoaded)
           THEN /\ ~Issued("DescribeIndex")
                /\ ~Issued("CreateIndex")
                /\ ~Issued("LoadCollection")
           ELSE /\ ConfiguredFields \subseteq milvus.indexed
                /\ Answered("LoadCollection", "ok")
                /\ Answered("AwaitLoad", "ok")

\* NewIndexer created the collection with a dense and a sparse field,
\* created both indexes, loaded it and returned without error.
C9_Witness ==
    /\ NewIndexerSucceeded
    /\ Answered("CreateCollection", "ok")
    /\ Len(IndexFields(iconf)) = 2
    /\ \A f \in ConfiguredFields :
          \E i \in 1..Len(ixcalls) :
             ixcalls[i] = Request("AwaitIndex", f, "ok")
    /\ Answered("AwaitLoad", "ok")

\* C10: when HasCollection reports the collection absent and the dense
\* vector configuration has Dimension <= 0, NewIndexer returns the dimension
\* error and never issues CreateCollection, CreateIndex or LoadCollection.
C10_MissingDimensionStopsBeforeCreate ==
    (Answered("HasCollection", "false") /\ iconf.Vector # Nil
        /\ Deref(iconf.Vector).Dimension <= 0) =>
        /\ ipc = "returned"
        /\ ixerr = "[NewIndexer] vector dimension is required when collection does not exist"
        /\ ~Issued("CreateCollection")
        /\ ~Issued("CreateIndex")
        /\ ~Issued("LoadCollection")
        /\ milvus = NoCollection

\* NewIndexer was called with a dense configuration without a dimension on
\* an absent collection and has returned the dimension error.
C10_Witness ==
    /\ ipc = "returned"
    /\ Answered("HasCollection", "false")
    /\ iconf.Vector # Nil
    /\ Deref(iconf.Vector).Dimension = 0
    /\ iconf.Sparse # Nil
    /\ ixerr = "[NewIndexer] vector dimension is required when collection does not exist"

(***************************************************************************)
(* Claims about IndexerConfig.validate                                     *)
(***************************************************************************)
\* validate has run on iconf0 and returned nil; iconf is what it left
Validated == ipc # "idle" /\ validate(iconf0).err = ""

\* validate has run on iconf0 and returned an error
ValidateFailed == ipc # "idle" /\ validate(iconf0).err # ""

\* C11: validate appends the function "bm25_auto" (input: the content
\* field, output: the sparse vector field) after the existing functions if
\* and only if a sparse field is configured, its resolved Method is Auto and
\* no existing function lists the sparse field among its outputs; otherwise
\* Functions is left as the caller passed it.
C11_Bm25AutoAppendedIffAutoAndNoSparseFunc ==
    /\ Validated =>
          LET appends ==
                 /\ iconf.Sparse # Nil
                 /\ Deref(iconf.Sparse).Method = SparseMethodAuto
                 /\ \A i \in 1..Len(iconf0.Functions) :
                       \A j \in 1..Len(iconf0.Functions[i].OutputFieldNames) :
                          iconf0.Functions[i].OutputFieldNames[j]
                              # Deref(iconf.Sparse).VectorField
          IN  iconf.Functions =
                 IF appends
                 THEN iconf0.Functions \o
                         <<[Name |-> "bm25_auto",
                            InputFieldNames |-> <<defaultContentField>>,
                            OutputFieldNames |-> <<Deref(iconf.Sparse).VectorField>>]>>
                 ELSE iconf0.Functions
    /\ ValidateFailed => iconf.Functions = iconf0.Functions

\* validate appended "bm25_auto" after a function the caller configured
C11_Witness ==
    /\ Validated
    /\ Len(iconf0.Functions) = 1
    /\ Len(iconf.Functions) = 2
    /\ iconf.Functions[1] = iconf0.Functions[1]
    /\ iconf.Functions[2].Name = "bm25_auto"

\* C12: when Sparse.Method is unset, validate sets it to Auto if the metric
\* type (after defaulting to BM25) is BM25 and to Precomputed otherwise; a
\* Method the caller set is never changed.
C12_SparseMethodDefault ==
    (Validated /\ iconf0.Sparse # Nil) =>
        LET given == Deref(iconf0.Sparse)
            resolved == Deref(iconf.Sparse)
        IN  /\ resolved.MetricType =
                  IF given.MetricType = "" THEN BM25 ELSE given.MetricType
            /\ given.Method # "" => resolved.Method = given.Method
            /\ given.Method = "" =>
                  resolved.Method =
                     IF resolved.MetricType = BM25
                     THEN SparseMethodAuto
                     ELSE SparseMethodPrecomputed

\* validate resolved an unset Method to Precomputed for the metric type IP
C12_Witness ==
    /\ Validated
    /\ iconf0.Sparse # Nil
    /\ Deref(iconf0.Sparse).Method = ""
    /\ Deref(iconf0.Sparse).MetricType = IP
    /\ Deref(iconf.Sparse).Method = SparseMethodPrecomputed

(***************************************************************************)
(* Claims about Indexer.Store                                              *)
(***************************************************************************)
StoreReturned == op = "Store" /\ cpc = "returned"

Sent(name) == \E i \in 1..Len(ocalls) : ocalls[i] = name

Got(answer) == \E i \in 1..Len(sanswers) : sanswers[i] = answer

SomeDocLacksDense == \E i \in 1..Len(sdocs) : ~sdocs[i].hasDense

C14_StoreFailuresReturnNilIds ==
    /\ (Got("EmbedStrings: error") \/ Got("EmbedStrings: wrong length")) =>
          /\ StoreReturned
          /\ sids = Nil
          /\ operr # ""
          /\ ~Sent("Upsert")
    /\ Got("Upsert: error") =>
          /\ StoreReturned
          /\ sids = Nil
          /\ operr # ""

\* Store got a result of the wrong length from the embedder and returned
C14_Witness ==
    /\ StoreReturned
    /\ Got("EmbedStrings: wrong length")
    /\ Len(sdocs) = MaxDocs
    /\ operr = "[Indexer.Store] embedding result length mismatch"

(***************************************************************************)
(* Claims about NewRetriever                                               *)
(***************************************************************************)
NewRetrieverSucceeded == lpc = "returned" /\ lerr = ""

LoadIssued(name) == \E i \in 1..Len(lcalls) : lcalls[i].op = name

LoadAnswered(name, res) ==
    \E i \in 1..Len(lcalls) : lcalls[i].op = name /\ lcalls[i].res = res

\* C15: NewRetriever never creates a collection.  If HasCollection reports
\* the collection absent it returns the "not found" error and issues no load
\* request; if the collection exists it issues and awaits a load request
\* only when GetLoadState did not report it loaded; on success the
\* collection exists and is loaded.
C15_RetrieverLoadsButNeverCreates ==
    /\ \A i \in 1..Len(lcalls) :
          lcalls[i].op \in {"HasCollection", "GetLoadState", "LoadCollection",
                            "AwaitLoad"}
    /\ LoadAnswered("HasCollection", "false") =>
          /\ lpc = "returned"
          /\ lerr = "[NewRetriever] collection not found"
          /\ Len(lcalls) = 1
          /\ lmilvus = NoCollection
    /\ LoadIssued("LoadCollection") =>
          /\ LoadAnswered("HasCollection", "true")
          /\ \E i \in 1..Len(lcalls) :
                /\ lcalls[i].op = "GetLoadState"
                /\ lcalls[i].res \in {LoadStateNotLoad, LoadStateLoading}
    /\ LoadAnswered("GetLoadState", LoadStateLoaded) =>
          /\ ~LoadIssued("LoadCollection")
          /\ NewRetrieverSucceeded
    /\ NewRetrieverSucceeded =>
          /\ lmilvus.exists
          /\ lmilvus.load = LoadStateLoaded
          /\ \/ LoadAnswered("GetLoadState", LoadStateLoaded)
             \/ /\ LoadAnswered("LoadCollection", "ok")
                /\ LoadAnswered("AwaitLoad", "ok")

\* NewRetriever found the collection not loaded, loaded it, awaited the load
\* and returned without error.
C15_Witness ==
    /\ NewRetrieverSucceeded
    /\ LoadAnswered("GetLoadState", LoadStateNotLoad)
    /\ LoadAnswered("AwaitLoad", "ok")

(***************************************************************************)
(* Claims about the iterator search mode                                   *)
(***************************************************************************)
IterSucceeded == iterPc = "returned" /\ iterErr = ""

RECURSIVE Concat(_)
Concat(ss) == IF ss = <<>> THEN <<>> ELSE Head(ss) \o Concat(Tail(ss))

\* the effective TopK of the call: the TopK option if given, else conf.TopK
EffectiveTopK ==
    IF iterOpts.TopK # Nil THEN Deref(iterOpts.TopK) ELSE iterConf.TopK

\* C16: when iterator-mode Retrieve succeeds it has called the cursor
\* sequentially with the effective TopK as iterator limit and returns, in
\* cursor order, the concatenation of every batch the cursor yielded until
\* the limit or the end of the collection was reached.
C16_IteratorReturnsAllBatches ==
    IterSucceeded =>
        /\ iterLimit = EffectiveTopK
        /\ iterDocs # Nil
        /\ Deref(iterDocs) = Concat(iterBatches)
        /\ Deref(iterDocs) = Hits(0, Min(EffectiveTopK, iterHits))
        /\ iterCalls = <<"EmbedStrings", "SearchIterator">> \o
                          [i \in 1..Len(iterCalls) - 2 |-> "Next"]

\* Retrieve returned three documents that the cursor yielded in more than
\* one batch, stopped by the iterator limit before the last hit.
C16_Witness ==
    /\ IterSucceeded
    /\ Len(iterBatches) >= 2
    /\ Len(Deref(iterDocs)) = 3
    /\ iterHits > 3

(***************************************************************************)
(* Claims about the scalar search mode                                     *)
(***************************************************************************)
ScalarBuilt == scQueryOpt # Nil

\* C17: the scalar query expression is "(" + query + ") and (" + filter +
\* ")" when both the query and the WithFilter option are non-empty, the
\* filter alone when the query is empty, and the query alone when no filter
\* is given.
C17_ScalarExprConcatenation ==
    ScalarBuilt =>
        LET expr == Deref(scQueryOpt).expr
            filter == scOpts.Filter
        IN  /\ (scQuery # <<>> /\ filter # <<>>) =>
                  /\ Len(expr) = Len(scQuery) + Len(filter) + 9
                  /\ expr[1] = "("
                  /\ SubSeq(expr, 2, Len(scQuery) + 1) = scQuery
                  /\ SubSeq(expr, Len(scQuery) + 2, Len(scQuery) + 8)
                        = <<")", " ", "a", "n", "d", " ", "(">>
                  /\ SubSeq(expr, Len(scQuery) + 9, Len(expr) - 1) = filter
                  /\ expr[Len(expr)] = ")"
            /\ (scQuery = <<>> /\ filter # <<>>) => expr = filter
            /\ filter = <<>> => expr = scQuery

\* a query option was built from a non-empty query and a non-empty filter
C17_Witness ==
    /\ ScalarBuilt
    /\ scQuery = <<"a", "|", "b">>
    /\ scOpts.Filter = <<"x", "|", "y">>
    /\ scCalls = <<"Query">>

(***************************************************************************)
(* Claims about toMilvusSparseEmbedding                                    *)
(***************************************************************************)
\* C18: converting a sparse vector map yields an index sequence and a value
\* sequence of equal length (one entry per key) in which the indices are
\* strictly ascending and each value is the map's weight, as a float32, for
\* the index at the same position; a map with a negative index is rejected
\* with an error; an empty map yields an empty embedding.
C18_SparseConversionSortedAndFaithful ==
    svPc = "returned" =>
        IF \E k \in DOMAIN svMap : k < 0
        THEN svErr # "" /\ svOut = Nil
        ELSE /\ svErr = ""
             /\ svOut # Nil
             /\ LET indices == Deref(svOut).indices
                    values == Deref(svOut).values
                IN  /\ Len(indices) = Len(values)
                    /\ Len(indices) = Cardinality(DOMAIN svMap)
                    /\ \A i \in 1..Len(indices) - 1 : indices[i] < indices[i + 1]
                    /\ \A i \in 1..Len(indices) :
                          /\ indices[i] \in DOMAIN svMap
                          /\ values[i] = Float32(svMap[indices[i]])

(***************************************************************************)
(* Claims about NewIndexer's index creation and request order              *)
(***************************************************************************)
\* C19: while initializing a collection that is not yet loaded, an index
\* that already exists on a configured vector field never makes NewIndexer
\* fail: an "already exists" answer to CreateIndex is not returned as the
\* error of NewIndexer.
C19_ExistingIndexNeverFails ==
    (ipc = "returned" /\ Answered("CreateIndex", "already exists")) => ixerr = ""

IssuedBefore(i, name, field, res) ==
    \E j \in 1..(i - 1) : ixcalls[j] = Request(name, field, res)

\* C20: the backend requests of NewIndexer are ordered and minimal:
\* CreateCollection is issued only after HasCollection answered that the
\* collection is absent; CreateIndex for a field is issued only after
\* DescribeIndex failed for that field; every index creation is awaited
\* before LoadCollection is issued; and no CreateIndex or LoadCollection is
\* issued when GetLoadState answered that the collection is loaded.
C20_RequestsOrderedAndMinimal ==
    \A i \in 1..Len(ixcalls) :
        /\ ixcalls[i].op = "CreateCollection"
               => IssuedBefore(i, "HasCollection", "", "false")
        /\ ixcalls[i].op = "CreateIndex"
               => /\ i > 1
                  /\ ixcalls[i - 1] = Request("DescribeIndex", ixcalls[i].field, "error")
        /\ ixcalls[i].op = "LoadCollection"
               => \A j \in 1..(i - 1) :
                      ixcalls[j].op = "CreateIndex" /\ ixcalls[j].res = "ok"
                          => /\ j + 1 < i
                             /\ ixcalls[j + 1] = Request("AwaitIndex", ixcalls[j].field, "ok")
        /\ ixcalls[i].op \in {"DescribeIndex", "CreateIndex", "LoadCollection"}
               => ~IssuedBefore(i, "GetLoadState", "", LoadStateLoaded)

\* NewIndexer created the collection and an index, awaited it and loaded
C20_Witness ==
    /\ NewIndexerSucceeded
    /\ Answered("HasCollection", "false")
    /\ Issued("CreateCollection")
    /\ Answered("CreateIndex", "ok")
    /\ Answered("LoadCollection", "ok")

(***************************************************************************)
(* Claims about repeated validation                                        *)
(***************************************************************************)
\* the auto-generated functions in a function list
AutoFunctions(functions) ==
    {i \in 1..Len(functions) : functions[i].Name = "bm25_auto"}

\* C21: IndexerConfig.validate is idempotent: after any number of calls on
\* the same config, the config equals what the first call left, and
\* Functions holds at most one auto-generated "bm25_auto" function.
C21_ValidateIdempotent ==
    vcalls >= 1 =>
        /\ vconf = vonce
        /\ Cardinality(AutoFunctions(vconf.Functions)) <= 1

\* validate was called again on a config that got its bm25_auto function
C21_Witness ==
    /\ vcalls >= 2
    /\ verr = ""
    /\ Cardinality(AutoFunctions(vconf.Functions)) = 1

(***************************************************************************)
(* Claims about the callbacks of Store and Retrieve                        *)
(***************************************************************************)
IsCallback(e) == e \in {"OnStart", "OnEnd", "OnError"}

Count(log, e) == Cardinality({i \in 1..Len(log) : log[i] = e})

\* C22: every call of Indexer.Store and of Retriever.Retrieve emits OnStart
\* exactly once, before any embedding or backend request; when the call has
\* returned it has emitted, after everything else, exactly one of OnEnd and
\* OnError: OnEnd if and only if it returns a nil error, OnError if and only
\* if it returns an error.  Before the return neither has been emitted.
C22_CallbacksOnStartThenEndOrError ==
    op \in {"Store", "Retrieve"} =>
        /\ cb = SelectSeq(trace, IsCallback)
        /\ ocalls = SelectSeq(trace, LAMBDA e : ~IsCallback(e))
        /\ trace[1] = "OnStart"
        /\ Count(trace, "OnStart") = 1
        /\ cpc # "returned" =>
              Count(trace, "OnEnd") + Count(trace, "OnError") = 0
        /\ cpc = "returned" =>
              /\ Count(trace, "OnEnd") + Count(trace, "OnError") = 1
              /\ trace[Len(trace)] \in {"OnEnd", "OnError"}
              /\ (trace[Len(trace)] = "OnEnd") <=> (operr = "")
              /\ (trace[Len(trace)] = "OnError") <=> (operr # "")

\* Retrieve embedded the query, the search failed, and OnError was emitted
C22_Witness ==
    /\ op = "Retrieve"
    /\ cpc = "returned"
    /\ operr # ""
    /\ trace = <<"OnStart", "EmbedStrings", "Search", "OnError">>

(***************************************************************************)
(* Claims about hybrid search with too few SubRequests                     *)
(***************************************************************************)
\* C23: with fewer than two SubRequests configured, no hybrid search option
\* is built, no HybridSearch request is issued to the backend, and Retrieve
\* ends with an error.
C23_FewerThanTwoSubRequestsFails ==
    Len(hy.SubRequests) < 2 =>
        /\ hybridOpt = Nil
        /\ rcalls = <<>>
        /\ rpc # "search"
        /\ rpc = "done" => rerr # ""

\* one sparse SubRequest, the query was embedded, and the build failed
C23_Witness ==
    /\ Len(hy.SubRequests) = 1
    /\ hy.SubRequests[1].VectorType = SparseVector
    /\ rpc = "done"
    /\ rerr = "failed to build hybrid search option"

====
